---- MODULE Spec2Model ----
(***************************************************************************)
(* TerraLabs backend: the tag-based lab inventory (azure_client.py).       *)
(*                                                                         *)
(* A string is a sequence of one-character strings, so that lower(),       *)
(* strip() and truthiness are computed and not assumed.  Python's None is  *)
(* the value None below, which is no string of the model's alphabet.  A    *)
(* tag dictionary is a function whose DOMAIN is the set of keys present.   *)
(* The inventory vms is what virtual_machines.list_all() yields, in        *)
(* listing order; a VM's id is its position in that listing.               *)
(***************************************************************************)
EXTENDS Integers, Sequences, FiniteSets, TLC

VARIABLES vms, last, run, procs, pure, cloud, job, http, mr, blob, poll, ips, snap

vars == <<vms, last, run, procs, pure, cloud, job, http, mr, blob, poll, ips, snap>>

\* ------------------------------------------------------------------ bounds
\* Number of VMs in the inventory.
NumVMs == 2

\* Number of concurrently running calls in the interleaved specification.
NumProcs == 2

\* Longest alias list handed to _get_tag in the pure specification.
MaxKeys == 2

\* resources of the four categories that delete_lab_resources walks
NumRes == 2

\* the longest timeout_s given to wait_for_pipeline, in time units
MaxTimeout == 3

\* destroy runs made for one lab
MaxRuns == 3

\* ----------------------------------------------------------------- strings
None == <<"None">>

EmptyStr == <<>>

\* Python truthiness of an Optional[str]
Truthy(s) == s # None /\ s # EmptyStr

\* `x or ""`
OrEmpty(s) == IF Truthy(s) THEN s ELSE EmptyStr

LowerChar(c) ==
    CASE c = "A" -> "a"
      [] c = "B" -> "b"
      [] c = "C" -> "c"
      [] c = "E" -> "e"
      [] c = "R" -> "r"
      [] c = "S" -> "s"
      [] c = "T" -> "t"
      [] c = "U" -> "u"
      [] c = "X" -> "x"
      [] c = "Y" -> "y"
      [] OTHER -> c

\* str.lower()
Lower(s) == [i \in 1..Len(s) |-> LowerChar(s[i])]

RECURSIVE LStrip(_)
LStrip(s) == IF s # <<>> /\ Head(s) = " " THEN LStrip(Tail(s)) ELSE s

RECURSIVE RStrip(_)
RStrip(s) ==
    IF s # <<>> /\ s[Len(s)] = " " THEN RStrip(SubSeq(s, 1, Len(s) - 1)) ELSE s

\* str.strip()
Strip(s) == RStrip(LStrip(s))

\* code points of the alphabet, for the sort keys
CharOrd(c) ==
    CASE c = " " -> 32
      [] c = "1" -> 49
      [] c = "A" -> 65
      [] c = "B" -> 66
      [] c = "C" -> 67
      [] c = "E" -> 69
      [] c = "R" -> 82
      [] c = "S" -> 83
      [] c = "T" -> 84
      [] c = "U" -> 85
      [] c = "X" -> 88
      [] c = "Y" -> 89
      [] c = "a" -> 97
      [] c = "b" -> 98
      [] c = "c" -> 99
      [] c = "d" -> 100
      [] c = "e" -> 101
      [] c = "n" -> 110
      [] c = "o" -> 111
      [] c = "r" -> 114
      [] c = "s" -> 115
      [] c = "t" -> 116
      [] c = "u" -> 117
      [] c = "x" -> 120
      [] c = "y" -> 121
      [] OTHER -> 0

\* Python's str `<`
RECURSIVE StrLess(_, _)
StrLess(s, t) ==
    IF t = <<>> THEN FALSE
    ELSE IF s = <<>> THEN TRUE
    ELSE IF Head(s) # Head(t) THEN CharOrd(Head(s)) < CharOrd(Head(t))
    ELSE StrLess(Tail(s), Tail(t))

\* ---------------------------------------------------------------- tag keys
TAG_KEYS_LAB_ID == <<"LabId", "lab_id", "LabID", "labId", "TLABS_LAB", "TLABS_LAB_ID">>

TAG_KEYS_COURSE == <<"LabCourse", "course", "Course", "TLABS_COURSE">>

TAG_PUBLISHED == "Published"

TAG_OCCUPIED_BY == "occupiedbystudent"

TAG_OCCUPIED_NAME == "occupiedbystudentname"

\* TL_RG_PREFIX is unset in the deployment modelled: RG_PREFIX = ""
RG_PREFIX == <<>>

NoTags == [k \in {} |-> EmptyStr]

\* tags.get(k, default)
TagGet(tags, k, default) == IF k \in DOMAIN tags THEN tags[k] ELSE default

\* tags[k] = v on a copy
TagSet(tags, k, v) == (k :> v) @@ tags

\* tags.pop(k, None) on a copy
TagPop(tags, k) == [j \in (DOMAIN tags) \ {k} |-> tags[j]]

\* mutant of GetTagFrom: an alias present with an empty value is returned
RECURSIVE GetTagFromPresent(_, _, _)
GetTagFromPresent(tags, keys, i) ==
    IF i > Len(keys) THEN None
    ELSE IF keys[i] \in DOMAIN tags THEN tags[keys[i]]
    ELSE GetTagFromPresent(tags, keys, i + 1)

\* _get_tag, the loop over keys[i..]
RECURSIVE GetTagFrom(_, _, _)
GetTagFrom(tags, keys, i) ==
    IF i > Len(keys) THEN None
    ELSE IF keys[i] \in DOMAIN tags /\ tags[keys[i]] # EmptyStr THEN tags[keys[i]]
    ELSE GetTagFrom(tags, keys, i + 1)

GetTag(tags, keys) == GetTagFrom(tags, keys, 1)

\* (resource_group or "").startswith(RG_PREFIX) unless RG_PREFIX is empty
RgIsAllowed(rg) ==
    IF RG_PREFIX = <<>> THEN TRUE
    ELSE Len(rg) >= Len(RG_PREFIX) /\ SubSeq(rg, 1, Len(RG_PREFIX)) = RG_PREFIX

VmMatchesLab(vm, lab_id, course) ==
    LET tag_lab == GetTag(vm.tags, TAG_KEYS_LAB_ID)
        tag_course == OrEmpty(GetTag(vm.tags, TAG_KEYS_COURSE))
    IN  IF tag_lab # lab_id THEN FALSE
        ELSE IF Truthy(course) /\ tag_course # course THEN FALSE
        ELSE TRUE

\* ---------------------------------------------------------- publication
\* str(tags.get(TAG_PUBLISHED, "")).lower() in ("true", "1", "yes")
IsPublishedValue(tags) ==
    Lower(TagGet(tags, TAG_PUBLISHED, EmptyStr))
        \in {<<"t", "r", "u", "e">>, <<"1">>, <<"y", "e", "s">>}

NoKeys == [k \in {} |-> FALSE]

\* mutant of PublishedByKey: only the first member of a lab decides
RECURSIVE PublishedByKeyFirstOnly(_, _, _)
PublishedByKeyFirstOnly(inv, i, by_key) ==
    IF i > Len(inv) THEN by_key
    ELSE LET vm == inv[i]
             lab_id == GetTag(vm.tags, TAG_KEYS_LAB_ID)
             course == OrEmpty(GetTag(vm.tags, TAG_KEYS_COURSE))
             key == <<lab_id, course>>
             b2 == IF key \in DOMAIN by_key THEN by_key
                   ELSE (key :> IsPublishedValue(vm.tags)) @@ by_key
         IN  IF ~RgIsAllowed(vm.rg) THEN PublishedByKeyFirstOnly(inv, i + 1, by_key)
             ELSE IF ~Truthy(lab_id) THEN PublishedByKeyFirstOnly(inv, i + 1, by_key)
             ELSE PublishedByKeyFirstOnly(inv, i + 1, b2)

\* list_published_labs, the loop over list_all()[i..] building by_key
RECURSIVE PublishedByKey(_, _, _)
PublishedByKey(inv, i, by_key) ==
    IF i > Len(inv) THEN by_key
    ELSE LET vm == inv[i]
             lab_id == GetTag(vm.tags, TAG_KEYS_LAB_ID)
             course == OrEmpty(GetTag(vm.tags, TAG_KEYS_COURSE))
             key == <<lab_id, course>>
             b1 == IF key \in DOMAIN by_key THEN by_key ELSE (key :> FALSE) @@ by_key
             b2 == IF IsPublishedValue(vm.tags) THEN (key :> TRUE) @@ b1 ELSE b1
         IN  IF ~RgIsAllowed(vm.rg) THEN PublishedByKey(inv, i + 1, by_key)
             ELSE IF ~Truthy(lab_id) THEN PublishedByKey(inv, i + 1, by_key)
             ELSE PublishedByKey(inv, i + 1, b2)

\* the sort key (x["course"], x["lab_id"]) of a key <<lab_id, course>>
KeyLess(k1, k2) ==
    \/ StrLess(k1[2], k2[2])
    \/ k1[2] = k2[2] /\ StrLess(k1[1], k2[1])

\* out.sort(key=...) over the keys of by_key
RECURSIVE SortKeys(_)
SortKeys(S) ==
    IF S = {} THEN <<>>
    ELSE LET m == CHOOSE k \in S : \A j \in S \ {k} : KeyLess(k, j)
         IN  <<m>> \o SortKeys(S \ {m})

ListPublishedLabs(inv) ==
    LET by_key == PublishedByKey(inv, 1, NoKeys)
        ks == SortKeys(DOMAIN by_key)
    IN  [i \in 1..Len(ks) |->
            [lab_id |-> ks[i][1], course |-> ks[i][2], published |-> by_key[ks[i]]]]

\* mutant of UpdateTags: the update is dropped when the VM has an occupant
UpdateTagsIfFree(inv, i, tags) ==
    IF Truthy(TagGet(inv[i].tags, TAG_OCCUPIED_BY, None)) THEN inv
    ELSE [inv EXCEPT ![i].tags = tags]

\* begin_update(rg, name, VirtualMachineUpdate(tags=tags)).result()
UpdateTags(inv, i, tags) == [inv EXCEPT ![i].tags = tags]

\* the tags set_lab_published pushes for one member
PublishTags(tags, published) ==
    IF published THEN TagSet(tags, TAG_PUBLISHED, <<"t", "r", "u", "e">>)
    ELSE TagPop(tags, TAG_PUBLISHED)

\* mutant of SetLabPublishedFrom: the call returns after its first update
RECURSIVE SetLabPublishedFirstOnly(_, _, _, _, _, _, _)
SetLabPublishedFirstOnly(inv, i, lab_id, course, published, updated, fails) ==
    IF i > Len(inv) THEN [inv |-> inv, updated |-> updated, raised |-> FALSE]
    ELSE IF ~RgIsAllowed(inv[i].rg)
        THEN SetLabPublishedFirstOnly(inv, i + 1, lab_id, course, published, updated, fails)
    ELSE IF ~VmMatchesLab(inv[i], lab_id, course)
        THEN SetLabPublishedFirstOnly(inv, i + 1, lab_id, course, published, updated, fails)
    ELSE IF i \in fails
        THEN [inv |-> inv, updated |-> updated, raised |-> TRUE]
    ELSE [inv |-> UpdateTags(inv, i, PublishTags(inv[i].tags, published)),
          updated |-> updated + 1, raised |-> FALSE]

\* set_lab_published, the loop over list_all()[i..]; fails is the set of VMs
\* whose begin_update(...).result() raises, which ends the call
RECURSIVE SetLabPublishedFrom(_, _, _, _, _, _, _)
SetLabPublishedFrom(inv, i, lab_id, course, published, updated, fails) ==
    IF i > Len(inv) THEN [inv |-> inv, updated |-> updated, raised |-> FALSE]
    ELSE IF ~RgIsAllowed(inv[i].rg)
        THEN SetLabPublishedFrom(inv, i + 1, lab_id, course, published, updated, fails)
    ELSE IF ~VmMatchesLab(inv[i], lab_id, course)
        THEN SetLabPublishedFrom(inv, i + 1, lab_id, course, published, updated, fails)
    ELSE IF i \in fails
        THEN [inv |-> inv, updated |-> updated, raised |-> TRUE]
    ELSE SetLabPublishedFrom(UpdateTags(inv, i, PublishTags(inv[i].tags, published)),
                             i + 1, lab_id, course, published, updated + 1, fails)

SetLabPublished(inv, lab_id, course, published, fails) ==
    SetLabPublishedFrom(inv, 1, lab_id, course, published, 0, fails)

\* ------------------------------------------------------------- enrollment
\* mutant of LabIsPublished: the publication guard is dropped
LabIsPublishedAlways(inv, lab_id, course) == TRUE

\* the guard of enroll_student_in_lab on list_published_labs()
LabIsPublished(inv, lab_id, course) ==
    LET pub_list == ListPublishedLabs(inv)
    IN  \E j \in 1..Len(pub_list) :
            /\ pub_list[j].lab_id = lab_id
            /\ pub_list[j].course = OrEmpty(course)
            /\ pub_list[j].published

\* mutant of EnrollPick: an occupied member is not skipped
RECURSIVE EnrollPickAny(_, _, _, _)
EnrollPickAny(inv, i, lab_id, course) ==
    IF i > Len(inv) THEN 0
    ELSE IF ~RgIsAllowed(inv[i].rg) THEN EnrollPickAny(inv, i + 1, lab_id, course)
    ELSE IF ~VmMatchesLab(inv[i], lab_id, course) THEN EnrollPickAny(inv, i + 1, lab_id, course)
    ELSE i

\* a scan that keeps the last free member it meets
RECURSIVE EnrollPickLast(_, _, _, _)
EnrollPickLast(inv, i, lab_id, course) ==
    IF i > Len(inv) THEN 0
    ELSE LET later == EnrollPickLast(inv, i + 1, lab_id, course)
         IN  IF later # 0 THEN later
             ELSE IF /\ RgIsAllowed(inv[i].rg)
                     /\ VmMatchesLab(inv[i], lab_id, course)
                     /\ ~Truthy(TagGet(inv[i].tags, TAG_OCCUPIED_BY, None))
                 THEN i
             ELSE 0

\* enroll_student_in_lab, the scan of list_all()[i..] for the VM to claim;
\* 0 when the loop ends without one
RECURSIVE EnrollPick(_, _, _, _)
EnrollPick(inv, i, lab_id, course) ==
    IF i > Len(inv) THEN 0
    ELSE IF ~RgIsAllowed(inv[i].rg) THEN EnrollPick(inv, i + 1, lab_id, course)
    ELSE IF ~VmMatchesLab(inv[i], lab_id, course) THEN EnrollPick(inv, i + 1, lab_id, course)
    ELSE IF Truthy(TagGet(inv[i].tags, TAG_OCCUPIED_BY, None))
        THEN EnrollPick(inv, i + 1, lab_id, course)
    ELSE i

\* mutant of ClaimTags: the occupant tag is not written
ClaimTagsNameOnly(tags, who, who_name) ==
    IF Truthy(who_name) THEN TagSet(tags, TAG_OCCUPIED_NAME, who_name) ELSE tags

\* an update that sends the occupancy tags alone
ClaimTagsAlone(tags, who, who_name) ==
    LET t1 == TagSet(NoTags, TAG_OCCUPIED_BY, who)
    IN  IF Truthy(who_name) THEN TagSet(t1, TAG_OCCUPIED_NAME, who_name) ELSE t1

\* the tags enroll_student_in_lab pushes for the VM it claims
ClaimTags(tags, who, who_name) ==
    LET t1 == TagSet(tags, TAG_OCCUPIED_BY, who)
    IN  IF Truthy(who_name) THEN TagSet(t1, TAG_OCCUPIED_NAME, who_name) ELSE t1

\* enroll_student_in_lab run without interruption: vm is the claimed VM's id,
\* 0 for None
EnrollStudentInLab(inv, lab_id, course, who, who_name) ==
    IF ~LabIsPublished(inv, lab_id, course) THEN [inv |-> inv, vm |-> 0]
    ELSE LET i == EnrollPick(inv, 1, lab_id, course)
         IN  IF i = 0 THEN [inv |-> inv, vm |-> 0]
             ELSE [inv |-> UpdateTags(inv, i, ClaimTags(inv[i].tags, who, who_name)),
                   vm |-> i]

\* a scan that passes over the VMs without a true Published tag
RECURSIVE FindFromPublished(_, _, _)
FindFromPublished(inv, i, wl) ==
    IF i > Len(inv) THEN 0
    ELSE LET val == Lower(Strip(OrEmpty(TagGet(inv[i].tags, TAG_OCCUPIED_BY, None))))
         IN  IF ~RgIsAllowed(inv[i].rg) THEN FindFromPublished(inv, i + 1, wl)
             ELSE IF val # EmptyStr /\ val = wl /\ IsPublishedValue(inv[i].tags) THEN i
             ELSE FindFromPublished(inv, i + 1, wl)

\* find_vm_for_student, the scan of list_all()[i..]
RECURSIVE FindFrom(_, _, _)
FindFrom(inv, i, wl) ==
    IF i > Len(inv) THEN 0
    ELSE LET val == Lower(Strip(OrEmpty(TagGet(inv[i].tags, TAG_OCCUPIED_BY, None))))
         IN  IF ~RgIsAllowed(inv[i].rg) THEN FindFrom(inv, i + 1, wl)
             ELSE IF val # EmptyStr /\ val = wl THEN i
             ELSE FindFrom(inv, i + 1, wl)

FindVmForStudent(inv, who) ==
    LET wl == Lower(Strip(OrEmpty(who)))
    IN  IF wl = EmptyStr THEN 0 ELSE FindFrom(inv, 1, wl)

\* ------------------------------------------------------------ running labs
TAG_KEYS_CREATED_AT == <<"CreatedAt", "CreatedOnDate", "created_at">>

TAG_KEYS_EXPIRES_AT == <<"ExpiresAt", "expires_at">>

\* key = (lab_id, course) of list_running_labs, course defaulting to ""
RunningKeyLabOnly(tags) == <<GetTag(tags, TAG_KEYS_LAB_ID), EmptyStr>>

RunningKey(tags) ==
    <<GetTag(tags, TAG_KEYS_LAB_ID), OrEmpty(GetTag(tags, TAG_KEYS_COURSE))>>

\* the position of grouped[key] in insertion order, 0 when key not in grouped
AggregateAt(grouped, key) ==
    IF \E p \in 1..Len(grouped) : <<grouped[p].lab_id, grouped[p].course>> = key
    THEN CHOOSE p \in 1..Len(grouped) : <<grouped[p].lab_id, grouped[p].course>> = key
    ELSE 0

\* the aggregate created for a key from the tags of the VM that introduces it
NewAggregate(key, tags) ==
    [lab_id |-> key[1], course |-> key[2],
     created_at |-> GetTag(tags, TAG_KEYS_CREATED_AT),
     expires_at |-> GetTag(tags, TAG_KEYS_EXPIRES_AT),
     vms |-> <<>>]

\* the loop of list_running_labs over list_all(), from VM i on
RECURSIVE GroupRunning(_, _, _)
GroupRunning(inv, i, grouped) ==
    IF i > Len(inv) THEN grouped
    ELSE IF ~RgIsAllowed(inv[i].rg) THEN GroupRunning(inv, i + 1, grouped)
    ELSE IF ~Truthy(GetTag(inv[i].tags, TAG_KEYS_LAB_ID))
    THEN GroupRunning(inv, i + 1, grouped)
    ELSE LET key == RunningKey(inv[i].tags)
             at == AggregateAt(grouped, key)
             g == IF at = 0 THEN Append(grouped, NewAggregate(key, inv[i].tags))
                  ELSE grouped
             p == IF at = 0 THEN Len(g) ELSE at
         IN  GroupRunning(inv, i + 1, [g EXCEPT ![p].vms = Append(@, i)])

\* labs.sort(key=lambda x: (x["course"], x["lab_id"])): a stable sort
RECURSIVE InsertLab(_, _)
InsertLab(sorted, lab) ==
    IF sorted = <<>> THEN <<lab>>
    ELSE IF KeyLess(<<lab.lab_id, lab.course>>,
                    <<sorted[Len(sorted)].lab_id, sorted[Len(sorted)].course>>)
    THEN Append(InsertLab(SubSeq(sorted, 1, Len(sorted) - 1), lab), sorted[Len(sorted)])
    ELSE Append(sorted, lab)

RECURSIVE SortLabs(_, _)
SortLabs(labs, n) ==
    IF n = 0 THEN <<>> ELSE InsertLab(SortLabs(labs, n - 1), labs[n])

ListRunningLabs(inv) ==
    LET labs == GroupRunning(inv, 1, <<>>) IN SortLabs(labs, Len(labs))

\* ------------------------------------------------------------ inventories
\* tag dictionaries of the VMs the calls run against
LabX == <<"x">>

LabY == <<"y">>

CourseC == <<"c">>

CourseD == <<"d">>

StrTrue == <<"t", "r", "u", "e">>

Rg == <<"r">>

Tags2(k1, v1, k2, v2) == (k1 :> v1) @@ (k2 :> v2)

Tags3(k1, v1, k2, v2, k3, v3) == (k1 :> v1) @@ (k2 :> v2) @@ (k3 :> v3)

Tags4(k1, v1, k2, v2, k3, v3, k4, v4) ==
    (k1 :> v1) @@ (k2 :> v2) @@ (k3 :> v3) @@ (k4 :> v4)

\* the <<lab_id, course>> pairs and the users the HTTP layer passes: course and
\* lab_id are non-empty, who is a registered user's lower-cased e-mail
Labs == {<<LabX, CourseC>>, <<LabY, CourseC>>, <<LabX, CourseD>>}

Users == {[who |-> <<"a">>, who_name |-> <<"A">>], [who |-> <<"b">>, who_name |-> None]}

SeqTagOptions ==
    { Tags2("LabId", LabX, "LabCourse", CourseC),
      Tags3("LabId", LabX, "LabCourse", CourseC, TAG_PUBLISHED, StrTrue),
      Tags4("lab_id", LabX, "course", CourseC, TAG_PUBLISHED, <<"Y", "e", "s">>,
            TAG_OCCUPIED_BY, EmptyStr),
      Tags3("LabId", LabY, "LabCourse", CourseC, TAG_PUBLISHED, StrTrue),
      NoTags }

Inventories(options) == [1..NumVMs -> [rg : {Rg}, tags : options]]

\* ----------------------------------------------------------- call records
NoCall ==
    [op |-> "none", lab_id |-> EmptyStr, course |-> EmptyStr, who |-> EmptyStr,
     published |-> FALSE, fails |-> {}, result |-> 0, updated |-> 0,
     raised |-> FALSE, labs |-> <<>>]

NoRun == [lab_id |-> EmptyStr, course |-> EmptyStr, published |-> FALSE,
          free |-> 0, results |-> <<>>]

NoPure == [tags |-> NoTags, keys |-> <<>>, result |-> None, done |-> FALSE]

\* no cloud resources besides the VMs, no deletion and no GitLab request
NoCloud == <<>>

\* summary of delete_lab_resources: per category the matched and deleted lists
NoSummary == [k \in 1..4 |-> [matched |-> <<>>, deleted |-> <<>>]]

\* a delete_lab call: pc is its position, kind and queue the category being
\* listed and what is left of its listing, calls the delete calls issued,
\* azure, delete_mr and report the outcome of the stages and of the call,
\* before the call that ended before this one
NoJob ==
    [pc |-> "idle", lab_id |-> EmptyStr, course |-> EmptyStr, dry_run |-> FALSE,
     delete_state |-> FALSE, kind |-> 0, queue |-> <<>>, summary |-> NoSummary,
     calls |-> <<>>, azure |-> "none", delete_mr |-> "none",
     state_tried |-> FALSE, tfstate_deleted |-> FALSE, report |-> "none",
     before |-> [lab_id |-> EmptyStr, course |-> EmptyStr, dry_run |-> FALSE,
                 azure |-> "none"]]

\* no error, as last_err starts
NoAnswer == [kind |-> "none", status |-> 0]

\* a _gl_request call: pc is its position, attempt and delay the loop's
\* variables, log the answers to its requests in order, sleeps the delays it
\* slept, outcome and result how it ended
NoHttp ==
    [pc |-> "idle", attempt |-> 0, delay |-> 0, last_err |-> NoAnswer,
     log |-> <<>>, sleeps |-> <<>>, outcome |-> "none", result |-> NoAnswer]

\* no create_delete_lab_mr call, no state cleanup, no pipeline wait
\* a create_delete_lab_mr call: raw and paths are the discovered paths before
\* and after sorted(set(...)), i the start of the batch, batch and j the
\* fallback loop, refused the paths whose single delete the repository
\* refuses, attempts the commits tried on the deletion branch in order;
\* over several calls for one lab, clock is int(time.time()), runs the calls
\* started, branch the deletion branch of the call, branches and opened the
\* project's deletion branches and open merge requests, created the merge
\* requests made so far, status the answer to the POST of the merge request,
\* found the result of the lookup, used the iid of the call's merge request
NoMr ==
    [pc |-> "idle", raw |-> <<>>, paths |-> <<>>, i |-> 0, batch |-> <<>>,
     j |-> 0, refused |-> {}, attempts |-> <<>>, failed_paths |-> <<>>,
     outcome |-> "none", deleted_paths |-> <<>>,
     clock |-> 0, runs |-> 0, branch |-> 0, branches |-> {}, opened |-> <<>>,
     created |-> 0, status |-> 0, found |-> 0, used |-> 0]

\* a _delete_state_blob_if_present call on a container: store holds the names
\* of the blobs of the container, configured tells of the three environment
\* settings, k is the candidate the loop is at, tried the delete_blob calls
\* in order (found: the container held the blob), before the result of the
\* call that ended before this one
NoBlob ==
    [pc |-> "idle", store |-> {}, configured |-> FALSE, k |-> 0, done |-> FALSE,
     tried |-> <<>>, result |-> FALSE, before |-> "none"]

\* a wait_for_pipeline call: now is the clock since the call began, polls the
\* outcome of each get_pipeline call in order ("error" when it raised)
NoPoll ==
    [pc |-> "idle", timeout_s |-> 0, poll_s |-> 0, now |-> 0, deadline |-> 0,
     last_status |-> "unknown", polls |-> <<>>, result |-> "none"]

\* no address: private_ip_address and ip_address are null
NoAddresses == [private_ip |-> None, public_ip |-> None]

\* a _resolve_vm_ips call: ref is what the VM holds as primary interface,
\* fetches the addresses each network_interfaces.get yielded in order
\* ("failed" when it raised), private_ip and public_ip the loop's variables
NoIps ==
    [pc |-> "idle", ref |-> "none", attempt |-> 0, fetches |-> <<>>,
     private_ip |-> None, public_ip |-> None, result |-> NoAddresses,
     raised |-> FALSE]

\* a snapshot_and_delete_template_vm call: found is the VM of the user (0 for
\* none), size the number of VMs when it began, calls the provider calls
\* that create or delete, in order, snapshot whether the snapshot was made,
\* deleted what the call has deleted
NoSnap ==
    [pc |-> "idle", user_id |-> EmptyStr, found |-> 0, size |-> 0, calls |-> <<>>,
     snapshot |-> FALSE, deleted |-> {}, result |-> "none"]

Quiet == mr = NoMr /\ blob = NoBlob /\ poll = NoPoll /\ ips = NoIps /\ snap = NoSnap

Idle == cloud = NoCloud /\ job = NoJob /\ http = NoHttp /\ Quiet

\* the members of a lab free for a claim
FreeMembers(inv, lab_id, course) ==
    {i \in 1..Len(inv) :
        /\ RgIsAllowed(inv[i].rg)
        /\ VmMatchesLab(inv[i], lab_id, course)
        /\ ~Truthy(TagGet(inv[i].tags, TAG_OCCUPIED_BY, None))}

\* ------------------------------------------- calls run one after the other
Init ==
    /\ vms \in Inventories(SeqTagOptions)
    /\ last = NoCall
    /\ run = NoRun
    /\ procs = <<>>
    /\ pure = NoPure
    /\ Idle

\* POST /api/labs/<course>/<lab_id>/enroll -> enroll_student_in_lab; with
\* track, run records the calls made in a row for one (lab_id, course)
Enroll(track) ==
    \E lab \in Labs, u \in Users :
        LET lab_id == lab[1]
            course == lab[2]
            r == EnrollStudentInLab(vms, lab_id, course, u.who, u.who_name)
            continues == /\ last.op = "enroll"
                         /\ run.lab_id = lab_id
                         /\ run.course = course
        IN  /\ vms' = r.inv
            /\ last' = [NoCall EXCEPT !.op = "enroll", !.lab_id = lab_id,
                                      !.course = course, !.who = u.who,
                                      !.result = r.vm]
            /\ run' = IF ~track THEN NoRun
                      ELSE IF continues
                      THEN IF Len(run.results) <= NumVMs
                           THEN [run EXCEPT !.results = Append(@, r.vm)]
                           ELSE run
                      ELSE [lab_id |-> lab_id, course |-> course,
                            published |-> LabIsPublished(vms, lab_id, course),
                            free |-> Cardinality(FreeMembers(vms, lab_id, course)),
                            results |-> <<r.vm>>]
            /\ UNCHANGED <<procs, pure, cloud, job, http, mr, blob, poll, ips, snap>>

EnrollCall == Enroll(FALSE)

\* GET /api/labs/my-enrollment -> find_vm_for_student
FindCall ==
    \E u \in Users :
        /\ last' = [NoCall EXCEPT !.op = "find", !.who = u.who,
                                  !.result = FindVmForStudent(vms, u.who)]
        /\ run' = NoRun
        /\ UNCHANGED <<vms, procs, pure, cloud, job, http, mr, blob, poll, ips, snap>>

\* POST /api/labs/<course>/<lab_id>/publish | unpublish -> set_lab_published;
\* failures are the sets of VMs whose tag update the provider may refuse
SetPublished(failures) ==
    \E lab \in Labs, published \in BOOLEAN, fails \in failures :
        LET lab_id == lab[1]
            course == lab[2]
            r == SetLabPublished(vms, lab_id, course, published, fails)
        IN  /\ vms' = r.inv
            /\ last' = [NoCall EXCEPT !.op = "set_published", !.lab_id = lab_id,
                                      !.course = course, !.published = published,
                                      !.fails = fails,
                                      !.updated = r.updated, !.raised = r.raised]
            /\ run' = NoRun
            /\ UNCHANGED <<procs, pure, cloud, job, http, mr, blob, poll, ips, snap>>

SetPublishedCall == SetPublished({{}})

Next == EnrollCall \/ FindCall \/ SetPublishedCall

Spec == Init /\ [][Next]_vars

\* --------------------------------------- enroll calls made in a row
EnrollInARow == Enroll(TRUE)

NextRun == EnrollInARow

SpecRun == Init /\ [][NextRun]_vars

\* ------------------------------- publication, with provider failures
PubTagOptions ==
    { Tags2("LabId", LabX, "LabCourse", CourseC),
      Tags3("LabId", LabX, "LabCourse", CourseC, TAG_PUBLISHED, StrTrue),
      Tags3("lab_id", LabX, "course", CourseC, TAG_PUBLISHED, <<"Y", "e", "s">>),
      Tags3("LabId", LabX, "LabCourse", CourseC, TAG_PUBLISHED, <<"n", "o">>),
      Tags4("LabId", LabX, "LabCourse", CourseC, TAG_PUBLISHED, <<"T", "R", "U", "E">>,
            TAG_OCCUPIED_BY, <<"a">>),
      Tags3("LabId", LabY, "LabCourse", CourseC, TAG_PUBLISHED, <<"1">>),
      Tags2("LabId", LabX, TAG_PUBLISHED, StrTrue),
      (TAG_PUBLISHED :> StrTrue) }

InitPub ==
    /\ vms \in Inventories(PubTagOptions)
    /\ last = NoCall
    /\ run = NoRun
    /\ procs = <<>>
    /\ pure = NoPure
    /\ Idle

\* GET /api/labs/published -> list_published_labs
ListPublishedCall ==
    /\ last' = [NoCall EXCEPT !.op = "list", !.labs = ListPublishedLabs(vms)]
    /\ UNCHANGED <<vms, run, procs, pure, cloud, job, http, mr, blob, poll, ips, snap>>

\* the provider refuses the update of at most one VM
SetPublishedMayFail == SetPublished({{}} \cup {{i} : i \in 1..NumVMs})

NextPub == ListPublishedCall \/ SetPublishedMayFail

SpecPub == InitPub /\ [][NextPub]_vars

\* ------------------------------------------------- _get_tag on its own
AliasKeys == {"LabId", "lab_id", "LabID"}

TagValues == {EmptyStr, LabX, LabY}

TagDicts == UNION {[D -> TagValues] : D \in SUBSET {"LabId", "lab_id"}}

AliasLists == UNION {[1..n -> AliasKeys] : n \in 0..MaxKeys}

InitTag ==
    /\ vms = <<>>
    /\ last = NoCall
    /\ run = NoRun
    /\ procs = <<>>
    /\ pure \in [tags : TagDicts, keys : AliasLists, result : {None}, done : {FALSE}]
    /\ Idle

ResolveTag ==
    /\ ~pure.done
    /\ pure' = [pure EXCEPT !.result = GetTag(pure.tags, pure.keys), !.done = TRUE]
    /\ UNCHANGED <<vms, last, run, procs, cloud, job, http, mr, blob, poll, ips, snap>>

NextTag == ResolveTag

SpecTag == InitTag /\ [][NextTag]_vars

\* ------------------------ enroll calls interleaved at the provider calls
ConcTagOptions ==
    { Tags2("LabId", LabX, "LabCourse", CourseC),
      Tags3("LabId", LabX, "LabCourse", CourseC, TAG_PUBLISHED, StrTrue),
      Tags3("LabId", LabY, "LabCourse", CourseC, TAG_PUBLISHED, StrTrue) }

ConcLabs == {<<LabX, CourseC>>, <<LabY, CourseC>>}

\* a request being served: pc is the provider call it makes next, pick and
\* tags are the VM and the tags it read for its update, order is the rank of
\* its update among all updates
NewCalls ==
    {[lab_id |-> lab[1], course |-> lab[2], who |-> u.who, who_name |-> u.who_name,
      pc |-> "check", pick |-> 0, tags |-> NoTags, result |-> 0, order |-> 0] :
        lab \in ConcLabs, u \in Users}

InitConc ==
    /\ vms \in Inventories(ConcTagOptions)
    /\ last = NoCall
    /\ run = NoRun
    /\ procs \in [1..NumProcs -> NewCalls]
    /\ pure = NoPure
    /\ Idle

Updates == Cardinality({q \in 1..NumProcs : procs[q].order > 0})

\* enroll_student_in_lab: list_published_labs() and the guard on it
EnrollCheck(p) ==
    /\ procs[p].pc = "check"
    /\ procs' = [procs EXCEPT ![p].pc =
                    IF LabIsPublished(vms, procs[p].lab_id, procs[p].course)
                    THEN "scan" ELSE "done"]
    /\ UNCHANGED <<vms, last, run, pure, cloud, job, http, mr, blob, poll, ips, snap>>

\* enroll_student_in_lab: list_all() and the scan for a free member
EnrollScan(p) ==
    /\ procs[p].pc = "scan"
    /\ LET i == EnrollPick(vms, 1, procs[p].lab_id, procs[p].course)
       IN  procs' = IF i = 0 THEN [procs EXCEPT ![p].pc = "done"]
                    ELSE [procs EXCEPT ![p].pc = "update", ![p].pick = i,
                                       ![p].tags = ClaimTags(vms[i].tags, procs[p].who,
                                                             procs[p].who_name)]
    /\ UNCHANGED <<vms, last, run, pure, cloud, job, http, mr, blob, poll, ips, snap>>

\* enroll_student_in_lab: begin_update(...).result() and the return
EnrollUpdate(p) ==
    /\ procs[p].pc = "update"
    /\ vms' = UpdateTags(vms, procs[p].pick, procs[p].tags)
    /\ procs' = [procs EXCEPT ![p].pc = "done", ![p].result = procs[p].pick,
                              ![p].order = Updates + 1]
    /\ UNCHANGED <<last, run, pure, cloud, job, http, mr, blob, poll, ips, snap>>

NextConc == \E p \in 1..NumProcs : EnrollCheck(p) \/ EnrollScan(p) \/ EnrollUpdate(p)

SpecConc == InitConc /\ [][NextConc]_vars

\* ------------------------------------------------ the running-labs listing
RunTagOptions ==
    { Tags2("LabId", LabX, "LabCourse", CourseC),
      Tags3("LabId", LabX, "LabCourse", CourseC, "CreatedAt", <<"1">>),
      Tags4("lab_id", LabX, "course", CourseC, "created_at", <<"2">>,
            "ExpiresAt", <<"2">>),
      Tags3("LabId", LabX, "LabCourse", CourseD, "expires_at", <<"1">>),
      Tags2("LabId", LabX, "CreatedAt", EmptyStr),
      Tags2("LabId", LabY, "LabCourse", CourseC),
      Tags2("LabCourse", CourseC, "CreatedAt", <<"1">>),
      NoTags }

InitLabs ==
    /\ vms \in Inventories(RunTagOptions)
    /\ last = NoCall
    /\ run = NoRun
    /\ procs = <<>>
    /\ pure = NoPure
    /\ Idle

\* GET /api/labs/running -> list_running_labs
ListRunningCall ==
    /\ last' = [NoCall EXCEPT !.op = "running", !.labs = ListRunningLabs(vms)]
    /\ UNCHANGED <<vms, run, procs, pure, cloud, job, http, mr, blob, poll, ips, snap>>

NextLabs == ListRunningCall

SpecLabs == InitLabs /\ [][NextLabs]_vars

\* ------------------------------------------------------- the destroy flow
TARGET_RESOURCE_GROUP ==
    <<"P", "r", "o", "j", "e", "c", "t", "s", "-", "T", "e", "r", "r", "a",
      "L", "a", "b", "s", "-", "R", "G">>

OtherRg == <<"o">>

\* the categories in the order delete_lab_resources walks them
Kinds == <<"vms", "nics", "public_ips", "disks">>

\* _both_tags_match, with the check on one tag only
LabTagMatches(tags, lab_id, course) ==
    IF tags = NoTags THEN FALSE
    ELSE Lower(Strip(OrEmpty(GetTag(tags, TAG_KEYS_LAB_ID)))) = Lower(Strip(lab_id))

BothTagsMatch(tags, lab_id, course) ==
    IF tags = NoTags THEN FALSE
    ELSE LET val_lab == Lower(Strip(OrEmpty(GetTag(tags, TAG_KEYS_LAB_ID))))
             val_course == Lower(Strip(OrEmpty(GetTag(tags, TAG_KEYS_COURSE))))
         IN  val_lab = Lower(Strip(lab_id)) /\ val_course = Lower(Strip(course))

\* a listing of category k over every resource group
RECURSIVE ListEverywhere(_, _, _, _)
ListEverywhere(c, k, rg, i) ==
    IF i > Len(c) THEN <<>>
    ELSE IF c[i].kind = k /\ c[i].present
    THEN <<i>> \o ListEverywhere(c, k, rg, i + 1)
    ELSE ListEverywhere(c, k, rg, i + 1)

\* <category>.list(rg): the names of the resources of category k in rg
RECURSIVE ListGroup(_, _, _, _)
ListGroup(c, k, rg, i) ==
    IF i > Len(c) THEN <<>>
    ELSE IF c[i].kind = k /\ c[i].rg = rg /\ c[i].present
    THEN <<i>> \o ListGroup(c, k, rg, i + 1)
    ELSE ListGroup(c, k, rg, i + 1)

\* `if not dry_run:` guarding the delete
DeletesAlways(dry_run) == TRUE

DeletesAfterMatch(dry_run) == ~dry_run

\* a provider that keeps the resource
KeepResource(c, rg, name) == c

\* begin_delete(rg, name).result() that succeeded: the resource of that
\* name in that group is gone
DeleteResource(c, rg, name) ==
    IF c[name].rg = rg THEN [c EXCEPT ![name].present = FALSE] ELSE c

RecordMatched(summary, k, rg, name) ==
    [summary EXCEPT ![k].matched = Append(@, [rg |-> rg, name |-> name])]

\* a summary that names the first deletion of a category only
RecordDeletedOnce(summary, k, rg, name) ==
    IF summary[k].deleted = <<>>
    THEN [summary EXCEPT ![k].deleted = Append(@, [rg |-> rg, name |-> name])]
    ELSE summary

RecordDeleted(summary, k, rg, name) ==
    [summary EXCEPT ![k].deleted = Append(@, [rg |-> rg, name |-> name])]

\* what the provider may answer to a delete: it succeeds or fails, and for a
\* resource that is gone it succeeds or answers NotFound
Answers(r) == IF r.present THEN {"ok", "error"} ELSE {"ok", "not_found"}

\* the resource group and tags of a resource: of the lab (X, c) as written, of
\* the lab with other case and blanks, of the lab in another group, of the
\* same lab_id under another course, of another lab of the course, untagged
ResOptions ==
    { [rg |-> TARGET_RESOURCE_GROUP, tags |-> Tags2("LabId", LabX, "LabCourse", CourseC)],
      [rg |-> TARGET_RESOURCE_GROUP,
       tags |-> Tags2("lab_id", <<" ", "X">>, "course", <<"C", " ">>)],
      [rg |-> OtherRg, tags |-> Tags2("LabId", LabX, "LabCourse", CourseC)],
      [rg |-> TARGET_RESOURCE_GROUP, tags |-> Tags2("LabId", LabX, "LabCourse", CourseD)],
      [rg |-> TARGET_RESOURCE_GROUP, tags |-> Tags2("LabId", LabY, "LabCourse", CourseC)],
      [rg |-> TARGET_RESOURCE_GROUP, tags |-> NoTags] }

\* the provider holds NumRes resources; those of a category are listed in
\* the order of their names
Clouds ==
    {[i \in 1..NumRes |-> [kind |-> ks[i], rg |-> os[i].rg, tags |-> os[i].tags,
                           present |-> TRUE]] :
        ks \in {f \in [1..NumRes -> 1..4] : \A i \in 1..(NumRes - 1) : f[i] <= f[i + 1]},
        os \in [1..NumRes -> ResOptions]}

\* the arguments of delete_lab: what POST /api/labs/delete passes, a preview
\* (azure_dry_run), a call that keeps the state, and a call without course
DeleteRequests ==
    { [lab_id |-> <<"X">>, course |-> CourseC, dry_run |-> FALSE, delete_state |-> TRUE],
      [lab_id |-> <<"X">>, course |-> CourseC, dry_run |-> TRUE, delete_state |-> TRUE],
      [lab_id |-> <<"X">>, course |-> CourseC, dry_run |-> FALSE, delete_state |-> FALSE],
      [lab_id |-> <<"X">>, course |-> EmptyStr, dry_run |-> FALSE, delete_state |-> TRUE] }

InitDel ==
    /\ vms = <<>>
    /\ last = NoCall
    /\ run = NoRun
    /\ procs = <<>>
    /\ pure = NoPure
    /\ cloud \in Clouds
    /\ job = NoJob
    /\ http = NoHttp
    /\ Quiet

\* the call that has ended, as the next call remembers it
Ended(j) ==
    [lab_id |-> j.lab_id, course |-> j.course, dry_run |-> j.dry_run,
     azure |-> j.azure]

\* delete_lab -> delete_lab_resources: `if not course`, the summary and the
\* listing of the VMs
StartDelete ==
    /\ job.pc \in {"idle", "done"}
    /\ \E req \in DeleteRequests :
          job' = IF Truthy(req.course)
                 THEN [NoJob EXCEPT
                         !.lab_id = req.lab_id, !.course = req.course,
                         !.dry_run = req.dry_run, !.delete_state = req.delete_state,
                         !.before = IF job.pc = "done" THEN Ended(job) ELSE @,
                         !.kind = 1,
                         !.queue = ListGroup(cloud, 1, TARGET_RESOURCE_GROUP, 1),
                         !.pc = "loop"]
                 ELSE [NoJob EXCEPT
                         !.lab_id = req.lab_id, !.course = req.course,
                         !.dry_run = req.dry_run, !.delete_state = req.delete_state,
                         !.before = IF job.pc = "done" THEN Ended(job) ELSE @,
                         !.azure = "raised", !.report = "raised", !.pc = "done"]
    /\ UNCHANGED <<vms, last, run, procs, pure, cloud, http, mr, blob, poll, ips, snap>>

\* `if not _both_tags_match(...): continue`
SkipResource ==
    /\ job.pc = "loop"
    /\ job.queue # <<>>
    /\ ~BothTagsMatch(cloud[Head(job.queue)].tags, job.lab_id, job.course)
    /\ job' = [job EXCEPT !.queue = Tail(@)]
    /\ UNCHANGED <<vms, last, run, procs, pure, cloud, http, mr, blob, poll, ips, snap>>

\* summary[...]["matched"].append(...) and `if not dry_run`
MatchResource ==
    /\ job.pc = "loop"
    /\ job.queue # <<>>
    /\ BothTagsMatch(cloud[Head(job.queue)].tags, job.lab_id, job.course)
    /\ job' = [job EXCEPT
                 !.summary = RecordMatched(@, job.kind, TARGET_RESOURCE_GROUP,
                                           Head(job.queue)),
                 !.pc = IF DeletesAfterMatch(job.dry_run) THEN "delete" ELSE "loop",
                 !.queue = IF DeletesAfterMatch(job.dry_run) THEN @ ELSE Tail(@)]
    /\ UNCHANGED <<vms, last, run, procs, pure, cloud, http, mr, blob, poll, ips, snap>>

\* begin_delete(TARGET_RESOURCE_GROUP, name).result() and the append to
\* deleted; an exception of the provider leaves delete_lab_resources and
\* delete_lab
BeginDelete ==
    /\ job.pc = "delete"
    /\ LET name == Head(job.queue) IN
       \E answer \in Answers(cloud[name]) :
          LET call == [kind |-> job.kind, rg |-> TARGET_RESOURCE_GROUP,
                       name |-> name, answer |-> answer]
          IN  IF answer = "ok"
              THEN /\ cloud' = DeleteResource(cloud, TARGET_RESOURCE_GROUP, name)
                   /\ job' = [job EXCEPT
                                !.calls = Append(@, call),
                                !.summary = RecordDeleted(@, job.kind,
                                                TARGET_RESOURCE_GROUP, name),
                                !.queue = Tail(@), !.pc = "loop"]
              ELSE /\ cloud' = cloud
                   /\ job' = [job EXCEPT !.calls = Append(@, call), !.azure = "raised",
                                         !.report = "raised", !.pc = "done"]
    /\ UNCHANGED <<vms, last, run, procs, pure, http, mr, blob, poll, ips, snap>>

\* the end of a category's loop and the listing of the next category
NextCategory ==
    /\ job.pc = "loop"
    /\ job.queue = <<>>
    /\ job.kind < Len(Kinds)
    /\ job' = [job EXCEPT
                 !.kind = @ + 1,
                 !.queue = ListGroup(cloud, job.kind + 1, TARGET_RESOURCE_GROUP, 1)]
    /\ UNCHANGED <<vms, last, run, procs, pure, cloud, http, mr, blob, poll, ips, snap>>

\* `return summary`, back in delete_lab
ReturnSummary ==
    /\ job.pc = "loop"
    /\ job.queue = <<>>
    /\ job.kind = Len(Kinds)
    /\ job' = [job EXCEPT !.azure = "returned", !.pc = "mr"]
    /\ UNCHANGED <<vms, last, run, procs, pure, cloud, http, mr, blob, poll, ips, snap>>

\* a flow that opens the change request while the teardown is under way
CreateDeleteMrEarly ==
    /\ job.pc \in {"loop", "mr"}
    /\ \E ok \in BOOLEAN :
          job' = IF ok THEN [job EXCEPT !.delete_mr = "returned", !.pc = "state"]
                 ELSE [job EXCEPT !.delete_mr = "raised", !.report = "raised",
                                  !.pc = "done"]
    /\ UNCHANGED <<vms, last, run, procs, pure, cloud, http, mr, blob, poll, ips, snap>>

\* create_delete_lab_mr(...): it returns its result or raises
CreateDeleteMr ==
    /\ job.pc = "mr"
    /\ \E ok \in BOOLEAN :
          job' = IF ok THEN [job EXCEPT !.delete_mr = "returned", !.pc = "state"]
                 ELSE [job EXCEPT !.delete_mr = "raised", !.report = "raised",
                                  !.pc = "done"]
    /\ UNCHANGED <<vms, last, run, procs, pure, cloud, http, mr, blob, poll, ips, snap>>

\* a last stage that goes to the state blob whatever the arguments
StateCleanupAlways ==
    /\ job.pc = "state"
    /\ \E deleted \in BOOLEAN :
          job' = [job EXCEPT !.state_tried = TRUE, !.tfstate_deleted = deleted,
                             !.report = "returned", !.pc = "done"]
    /\ UNCHANGED <<vms, last, run, procs, pure, cloud, http, mr, blob, poll, ips, snap>>

\* `if delete_state and not azure_dry_run` with _delete_state_blob_if_present,
\* and the return of the report
StateCleanup ==
    /\ job.pc = "state"
    /\ \E deleted \in BOOLEAN :
          LET tries == job.delete_state /\ ~job.dry_run
          IN  job' = [job EXCEPT !.state_tried = tries,
                                 !.tfstate_deleted = tries /\ deleted,
                                 !.report = "returned", !.pc = "done"]
    /\ UNCHANGED <<vms, last, run, procs, pure, cloud, http, mr, blob, poll, ips, snap>>

\* the resource to delete goes away before the delete call reaches the
\* provider (removed with the VM it was attached to, or by a destroy pipeline)
GoesAway ==
    /\ job.pc = "delete"
    /\ cloud[Head(job.queue)].present
    /\ cloud' = [cloud EXCEPT ![Head(job.queue)].present = FALSE]
    /\ UNCHANGED <<vms, last, run, procs, pure, job, http, mr, blob, poll, ips, snap>>

NextDel ==
    \/ StartDelete
    \/ SkipResource
    \/ MatchResource
    \/ BeginDelete
    \/ NextCategory
    \/ ReturnSummary
    \/ CreateDeleteMr
    \/ StateCleanup
    \/ GoesAway

SpecDel == InitDel /\ [][NextDel]_vars

\* ------------------------------------------------------------ _gl_request
\* retries and backoff as every caller leaves them; delays are in tenths of
\* a second (backoff = 1.5)
Retries == 3

Backoff == 15

\* a status check that also takes the other 4xx answers for transient
RetryStatusesWith4xx == {404, 409, 429, 500, 502, 503, 504}

\* `resp.status_code in (429, 500, 502, 503, 504)`
RetryStatuses == {429, 500, 502, 503, 504}

\* what SESSION.request may do: answer with a status, or raise
GlAnswers ==
    [kind : {"response"}, status : {200, 404, 409} \cup RetryStatuses]
        \cup [kind : {"timeout", "connection", "request_exception"}, status : {0}]

\* an except clause for requests.Timeout alone
CaughtTimeoutOnly(kind) == kind = "timeout"

\* the exception classes the two except clauses catch: requests.Timeout,
\* requests.ConnectionError and requests.RequestException; the RuntimeError
\* raised for a retry status is none of them
Caught(kind) == kind \in {"timeout", "connection", "request_exception"}

InitHttp ==
    /\ vms = <<>>
    /\ last = NoCall
    /\ run = NoRun
    /\ procs = <<>>
    /\ pure = NoPure
    /\ cloud = NoCloud
    /\ job = NoJob
    /\ http = NoHttp
    /\ Quiet

\* _gl_request(...): delay = backoff, last_err = None, the first attempt
CallGl ==
    /\ http.pc = "idle"
    /\ http' = [NoHttp EXCEPT !.pc = "request", !.attempt = 1, !.delay = Backoff]
    /\ UNCHANGED <<vms, last, run, procs, pure, cloud, job, mr, blob, poll, ips, snap>>

\* one pass of the try block: the request, the status check, the except
\* clauses and `if attempt < retries`; after the last attempt `raise last_err`
SendRequest ==
    /\ http.pc = "request"
    /\ \E answer \in GlAnswers :
          LET raises == IF answer.kind # "response" THEN answer.kind
                        ELSE IF answer.status \in RetryStatuses THEN "runtime_error"
                        ELSE "none"
              err == [kind |-> raises, status |-> answer.status]
              logged == [http EXCEPT !.log = Append(@, answer)]
          IN  http' =
                IF raises = "none"
                THEN [logged EXCEPT !.outcome = "returned", !.result = answer,
                                    !.pc = "done"]
                ELSE IF ~Caught(raises)
                THEN [logged EXCEPT !.last_err = err, !.outcome = "raised",
                                    !.result = err, !.pc = "done"]
                ELSE IF http.attempt < Retries
                THEN [logged EXCEPT !.last_err = err, !.pc = "sleep"]
                ELSE [logged EXCEPT !.last_err = err, !.outcome = "raised",
                                    !.result = err, !.pc = "done"]
    /\ UNCHANGED <<vms, last, run, procs, pure, cloud, job, mr, blob, poll, ips, snap>>

\* time.sleep(delay); delay *= 2; the next attempt
Sleep ==
    /\ http.pc = "sleep"
    /\ http' = [http EXCEPT !.sleeps = Append(@, http.delay), !.delay = @ * 2,
                            !.attempt = @ + 1, !.pc = "request"]
    /\ UNCHANGED <<vms, last, run, procs, pure, cloud, job, mr, blob, poll, ips, snap>>

NextHttp == CallGl \/ SendRequest \/ Sleep

SpecHttp == InitHttp /\ [][NextHttp]_vars

\* --------------------------------------------------- create_delete_lab_mr
\* a path is the rank of its name among the names of the repository
BATCH == 80

RECURSIVE Descending(_)
Descending(n) == IF n = 0 THEN <<>> ELSE <<n>> \o Descending(n - 1)

RECURSIVE SortPaths(_)
SortPaths(S) ==
    IF S = {} THEN <<>>
    ELSE LET m == CHOOSE x \in S : \A y \in S : x <= y
         IN  <<m>> \o SortPaths(S \ {m})

\* sorted(set(paths_to_delete))
SortedSet(raw) == SortPaths({raw[p] : p \in 1..Len(raw)})

\* a slice that stops one path short
BatchAtShort(paths, i) ==
    SubSeq(paths, i + 1, IF i + BATCH - 1 < Len(paths) THEN i + BATCH - 1 ELSE Len(paths))

\* paths_to_delete[i:i+BATCH]
BatchAt(paths, i) ==
    SubSeq(paths, i + 1, IF i + BATCH < Len(paths) THEN i + BATCH ELSE Len(paths))

\* the files of the lab folder that the tree listing yields
TreeSizes == {0, 1, BATCH - 1, BATCH}

\* what the discovery collects: the blobs of the tree listing, then the
\* candidate files that exist; candidate_files[0] and candidate_files[1] are
\* the same path, so a state file of the lab folder is collected twice
Discoveries ==
    UNION {{Descending(t) \o files :
               files \in {<<>>, <<t + 1, t + 1>>, <<t + 1, t + 1, t + 2>>}} :
           t \in TreeSizes}

\* the paths whose delete the repository may refuse
RefusablePaths == {1, 2, BATCH, BATCH + 1}

InitMr ==
    /\ vms = <<>>
    /\ last = NoCall
    /\ run = NoRun
    /\ procs = <<>>
    /\ pure = NoPure
    /\ Idle

\* the loop over the batches goes on, or ends at `if failed_paths`
AfterBatch(m) ==
    IF m.i + BATCH < Len(m.paths)
    THEN [m EXCEPT !.i = @ + BATCH, !.pc = "batch"]
    ELSE [m EXCEPT !.pc = IF m.failed_paths # <<>> THEN "marker" ELSE "create"]

\* create_delete_lab_mr up to the deletions: discovery, sorted(set(...)) and
\* ensure_branch, which raises when the branch cannot be created
StartMr ==
    /\ mr.pc = "idle"
    /\ \E raw \in Discoveries, refused \in SUBSET RefusablePaths, branch_ok \in BOOLEAN :
          mr' = IF ~branch_ok
                THEN [NoMr EXCEPT !.raw = raw, !.paths = SortedSet(raw),
                                  !.refused = refused,
                                  !.outcome = "raised", !.pc = "done"]
                ELSE [NoMr EXCEPT !.raw = raw, !.paths = SortedSet(raw),
                                  !.refused = refused,
                                  !.pc = IF SortedSet(raw) = <<>> THEN "empty"
                                         ELSE "batch"]
    /\ UNCHANGED <<vms, last, run, procs, pure, cloud, job, http, blob, poll, ips, snap>>

\* `if not paths_to_delete`: one commit without actions, outside any try
CommitEmpty ==
    /\ mr.pc = "empty"
    /\ \E ok \in BOOLEAN :
          mr' = [mr EXCEPT
                   !.attempts = Append(@, [kind |-> "empty", paths |-> <<>>, ok |-> ok]),
                   !.outcome = IF ok THEN @ ELSE "raised",
                   !.pc = IF ok THEN "create" ELSE "done"]
    /\ UNCHANGED <<vms, last, run, procs, pure, cloud, job, http, blob, poll, ips, snap>>

\* the commit of a batch; when it raises, the fallback loop starts
CommitBatch ==
    /\ mr.pc = "batch"
    /\ \E ok \in BOOLEAN :
          LET batch == BatchAt(mr.paths, mr.i)
              tried == [mr EXCEPT !.attempts =
                           Append(@, [kind |-> "batch", paths |-> batch, ok |-> ok])]
          IN  mr' = IF ok THEN AfterBatch(tried)
                    ELSE [tried EXCEPT !.batch = batch, !.j = 1, !.pc = "single"]
    /\ UNCHANGED <<vms, last, run, procs, pure, cloud, job, http, blob, poll, ips, snap>>

\* the commit of one path of the failed batch; when it raises, the path is
\* appended to failed_paths
CommitSingle ==
    /\ mr.pc = "single"
    /\ LET path == mr.batch[mr.j]
           ok == path \notin mr.refused
           tried == [mr EXCEPT
                       !.attempts = Append(@, [kind |-> "single", paths |-> <<path>>,
                                               ok |-> ok]),
                       !.failed_paths = IF ok THEN @ ELSE Append(@, path)]
       IN  mr' = IF mr.j < Len(mr.batch) THEN [tried EXCEPT !.j = @ + 1]
                 ELSE AfterBatch(tried)
    /\ UNCHANGED <<vms, last, run, procs, pure, cloud, job, http, blob, poll, ips, snap>>

\* `if failed_paths`: the commit of .delete_failed.json, outside any try
CommitMarker ==
    /\ mr.pc = "marker"
    /\ \E ok \in BOOLEAN :
          mr' = [mr EXCEPT
                   !.attempts = Append(@, [kind |-> "marker", paths |-> <<>>, ok |-> ok]),
                   !.outcome = IF ok THEN @ ELSE "raised",
                   !.pc = IF ok THEN "create" ELSE "done"]
    /\ UNCHANGED <<vms, last, run, procs, pure, cloud, job, http, blob, poll, ips, snap>>

\* the merge request: created, found open after a 409, or an error; the
\* result carries deleted_paths = paths_to_delete
CreateMr ==
    /\ mr.pc = "create"
    /\ \E answer \in {"created", "conflict_open", "conflict_none", "error"} :
          mr' = IF answer \in {"created", "conflict_open"}
                THEN [mr EXCEPT !.outcome = "returned", !.deleted_paths = mr.paths,
                                !.pc = "done"]
                ELSE [mr EXCEPT !.outcome = "raised", !.pc = "done"]
    /\ UNCHANGED <<vms, last, run, procs, pure, cloud, job, http, blob, poll, ips, snap>>

NextMr ==
    \/ StartMr
    \/ CommitEmpty
    \/ CommitBatch
    \/ CommitSingle
    \/ CommitMarker
    \/ CreateMr

SpecMr == InitMr /\ [][NextMr]_vars

\* ------------------------------------------ _delete_state_blob_if_present
\* candidates for course c and lab x
BlobCandidates == <<"c/x.tfstate", "x.tfstate", "Labs/c/x.tfstate">>

\* a result that tells of the last candidate only
DoneIsLast(done, ok) == ok

\* `done = True` after a delete_blob that did not raise
DoneAfter(done, ok) == done \/ ok

\* what delete_blob may do: for a blob of the container it deletes it or
\* raises; for a name the container does not hold it raises
BlobAnswers(store, name) == IF name \in store THEN {TRUE, FALSE} ELSE {FALSE}

InitBlob ==
    /\ vms = <<>>
    /\ last = NoCall
    /\ run = NoRun
    /\ procs = <<>>
    /\ pure = NoPure
    /\ cloud = NoCloud
    /\ job = NoJob
    /\ http = NoHttp
    /\ mr = NoMr
    /\ poll = NoPoll
    /\ ips = NoIps
    /\ snap = NoSnap
    /\ blob \in {[NoBlob EXCEPT !.store = st, !.configured = cf] :
                    st \in SUBSET {BlobCandidates[n] : n \in 1..Len(BlobCandidates)},
                    cf \in BOOLEAN}

\* _delete_state_blob_if_present up to the loop: the settings, the client
\* (an exception there returns False) and the candidates
StartCleanup ==
    /\ blob.pc \in {"idle", "done"}
    /\ \E client_ok \in BOOLEAN :
          LET fresh == [NoBlob EXCEPT
                          !.store = blob.store, !.configured = blob.configured,
                          !.before = IF blob.pc = "done"
                                     THEN IF blob.result THEN "true" ELSE "false"
                                     ELSE blob.before]
          IN  blob' = IF blob.configured /\ client_ok
                      THEN [fresh EXCEPT !.k = 1, !.pc = "loop"]
                      ELSE [fresh EXCEPT !.result = FALSE, !.pc = "done"]
    /\ UNCHANGED <<vms, last, run, procs, pure, cloud, job, http, mr, poll, ips, snap>>

\* one pass of the loop: delete_blob(blob_name), `done = True` or `pass`;
\* after the last candidate `return done`
DeleteBlob ==
    /\ blob.pc = "loop"
    /\ LET name == BlobCandidates[blob.k] IN
       \E ok \in BlobAnswers(blob.store, name) :
          LET tried == [blob EXCEPT
                          !.store = IF ok THEN @ \ {name} ELSE @,
                          !.done = DoneAfter(@, ok),
                          !.tried = Append(@, [name |-> name, ok |-> ok,
                                               found |-> name \in blob.store])]
          IN  blob' = IF blob.k < Len(BlobCandidates)
                      THEN [tried EXCEPT !.k = @ + 1]
                      ELSE [tried EXCEPT !.result = tried.done, !.pc = "done"]
    /\ UNCHANGED <<vms, last, run, procs, pure, cloud, job, http, mr, poll, ips, snap>>

NextBlob == StartCleanup \/ DeleteBlob

SpecBlob == InitBlob /\ [][NextBlob]_vars

\* ------------------------------------------------------- wait_for_pipeline
\* `status in ("success", "failed", "canceled", "skipped")`
TerminalStatuses == {"success", "failed", "canceled", "skipped"}

\* what get_pipeline may yield: a status, or an exception ("error")
Observations == {"pending", "running", "error"} \cup TerminalStatuses

\* the poll intervals and the time a get_pipeline call may take
PollIntervals == {1, 2}

PollDurations == {0, 1}

\* a wait that keeps the first status it saw
ObserveFirst(last_status, status) ==
    IF last_status = "unknown" THEN status ELSE last_status

\* `if status != last_status: last_status = status`
Observe(last_status, status) == IF status # last_status THEN status ELSE last_status

InitPoll ==
    /\ vms = <<>>
    /\ last = NoCall
    /\ run = NoRun
    /\ procs = <<>>
    /\ pure = NoPure
    /\ Idle

\* wait_for_pipeline(...): deadline = time.time() + timeout_s
StartWait ==
    /\ poll.pc = "idle"
    /\ \E timeout_s \in 0..MaxTimeout, poll_s \in PollIntervals :
          poll' = [NoPoll EXCEPT !.timeout_s = timeout_s, !.poll_s = poll_s,
                                 !.deadline = timeout_s, !.pc = "check"]
    /\ UNCHANGED <<vms, last, run, procs, pure, cloud, job, http, mr, blob, ips, snap>>

\* `while time.time() < deadline` holds: the try block with get_pipeline
PollPipeline ==
    /\ poll.pc = "check"
    /\ poll.now < poll.deadline
    /\ \E status \in Observations, took \in PollDurations :
          LET polled == [poll EXCEPT !.polls = Append(@, status), !.now = @ + took]
          IN  poll' =
                IF status = "error" THEN [polled EXCEPT !.pc = "sleep"]
                ELSE IF status \in TerminalStatuses
                THEN [polled EXCEPT !.last_status = Observe(@, status),
                                    !.result = status, !.pc = "done"]
                ELSE [polled EXCEPT !.last_status = Observe(@, status), !.pc = "sleep"]
    /\ UNCHANGED <<vms, last, run, procs, pure, cloud, job, http, mr, blob, ips, snap>>

\* time.sleep(poll_s)
SleepPoll ==
    /\ poll.pc = "sleep"
    /\ poll' = [poll EXCEPT !.now = @ + poll.poll_s, !.pc = "check"]
    /\ UNCHANGED <<vms, last, run, procs, pure, cloud, job, http, mr, blob, ips, snap>>

\* the loop condition fails: `return last_status`
DeadlinePassed ==
    /\ poll.pc = "check"
    /\ poll.now >= poll.deadline
    /\ poll' = [poll EXCEPT !.result = poll.last_status, !.pc = "done"]
    /\ UNCHANGED <<vms, last, run, procs, pure, cloud, job, http, mr, blob, ips, snap>>

NextPoll == StartWait \/ PollPipeline \/ SleepPoll \/ DeadlinePassed

SpecPoll == InitPoll /\ [][NextPoll]_vars

\* ------------- enroll calls interleaved with a set_lab_published call
\* the members of the lab (X, c): free and unpublished, free and published
MixTagOptions ==
    { Tags2("LabId", LabX, "LabCourse", CourseC),
      Tags3("LabId", LabX, "LabCourse", CourseC, TAG_PUBLISHED, StrTrue) }

\* the enroll requests for the lab
MixCalls == {c \in NewCalls : c.lab_id = LabX /\ c.course = CourseC}

\* the set_lab_published call being served: pc is the provider call it makes
\* next, listing what list_all() gave it, i the member its loop is at
PublishCalls ==
    {[lab_id |-> LabX, course |-> CourseC, published |-> published, pc |-> "list",
      listing |-> <<>>, i |-> 0, updated |-> 0] : published \in BOOLEAN}

\* the position of the publish call in procs, after the enroll calls
Publisher == NumProcs + 1

\* the next VM of the listing, from i on, that the loop does not pass over
RECURSIVE NextMember(_, _, _, _)
NextMember(inv, i, lab_id, course) ==
    IF i > Len(inv) THEN 0
    ELSE IF RgIsAllowed(inv[i].rg) /\ VmMatchesLab(inv[i], lab_id, course) THEN i
    ELSE NextMember(inv, i + 1, lab_id, course)

InitMix ==
    /\ vms \in Inventories(MixTagOptions)
    /\ last = NoCall
    /\ run = NoRun
    /\ procs \in {enrolls \o <<pub>> : enrolls \in [1..NumProcs -> MixCalls],
                                       pub \in PublishCalls}
    /\ pure = NoPure
    /\ Idle

\* set_lab_published: list_all()
PublishList ==
    /\ procs[Publisher].pc = "list"
    /\ LET i == NextMember(vms, 1, procs[Publisher].lab_id, procs[Publisher].course)
       IN  procs' = [procs EXCEPT ![Publisher].listing = vms, ![Publisher].i = i,
                                  ![Publisher].pc = IF i = 0 THEN "done" ELSE "update"]
    /\ UNCHANGED <<vms, last, run, pure, cloud, job, http, mr, blob, poll, ips, snap>>

\* set_lab_published: the tags of the listed VM with Published set or
\* popped, begin_update(...).result(), and the loop's step to the next member
PublishUpdate ==
    /\ procs[Publisher].pc = "update"
    /\ LET c == procs[Publisher]
           i == NextMember(c.listing, c.i + 1, c.lab_id, c.course)
       IN  /\ vms' = UpdateTags(vms, c.i, PublishTags(c.listing[c.i].tags, c.published))
           /\ procs' = [procs EXCEPT ![Publisher].updated = @ + 1, ![Publisher].i = i,
                                     ![Publisher].pc = IF i = 0 THEN "done" ELSE "update"]
    /\ UNCHANGED <<last, run, pure, cloud, job, http, mr, blob, poll, ips, snap>>

NextMix ==
    \/ \E p \in 1..NumProcs : EnrollCheck(p) \/ EnrollScan(p) \/ EnrollUpdate(p)
    \/ PublishList
    \/ PublishUpdate

SpecMix == InitMix /\ [][NextMix]_vars

\* -------------------------------------------------------- _resolve_vm_ips
\* attempts as every caller leaves it
Attempts == 5

\* `if private_ip or public_ip`, looking at the private address only
ResolvedPrivately(private_ip, public_ip) == Truthy(private_ip)

\* `if private_ip or public_ip`
Resolved(private_ip, public_ip) == Truthy(private_ip) \/ Truthy(public_ip)

\* what the VM holds: no interface, an interface id without group or name, an
\* interface id
NicRefs == {"none", "malformed", "nic"}

\* what one fetch yields: the get raised, or the interface has neither
\* address yet, one of them, or both (the public address is null as well
\* when its own get raised)
FetchOutcomes ==
    { [failed |-> TRUE, private_ip |-> None, public_ip |-> None],
      [failed |-> FALSE, private_ip |-> None, public_ip |-> None],
      [failed |-> FALSE, private_ip |-> <<"1">>, public_ip |-> None],
      [failed |-> FALSE, private_ip |-> None, public_ip |-> <<"2">>],
      [failed |-> FALSE, private_ip |-> <<"1">>, public_ip |-> <<"2">>] }

InitIps ==
    /\ vms = <<>>
    /\ last = NoCall
    /\ run = NoRun
    /\ procs = <<>>
    /\ pure = NoPure
    /\ cloud = NoCloud
    /\ job = NoJob
    /\ http = NoHttp
    /\ mr = NoMr
    /\ blob = NoBlob
    /\ poll = NoPoll
    /\ ips = NoIps
    /\ snap = NoSnap

\* the reference to the primary interface and the two early returns
StartResolve ==
    /\ ips.pc = "idle"
    /\ \E ref \in NicRefs :
          ips' = [NoIps EXCEPT !.ref = ref,
                               !.pc = IF ref = "nic" THEN "fetch" ELSE "done"]
    /\ UNCHANGED <<vms, last, run, procs, pure, cloud, job, http, mr, blob, poll, snap>>

\* the body of the loop up to the sleep: the get, the two addresses and the
\* break; an exception is passed over and leaves the variables as they are
FetchNic ==
    /\ ips.pc = "fetch"
    /\ \E f \in FetchOutcomes :
          LET private_ip == IF f.failed THEN ips.private_ip ELSE f.private_ip
              public_ip == IF f.failed THEN ips.public_ip ELSE f.public_ip
              got == [ips EXCEPT !.fetches = Append(@, f),
                                 !.private_ip = private_ip, !.public_ip = public_ip]
          IN  ips' = IF ~f.failed /\ Resolved(private_ip, public_ip)
                     THEN [got EXCEPT !.pc = "done",
                                      !.result = [private_ip |-> private_ip,
                                                  public_ip |-> public_ip]]
                     ELSE [got EXCEPT !.pc = "sleep"]
    /\ UNCHANGED <<vms, last, run, procs, pure, cloud, job, http, mr, blob, poll, snap>>

\* time.sleep(sleep_s) and the next turn of range(attempts), or the return
\* after the last one
SleepIps ==
    /\ ips.pc = "sleep"
    /\ ips' = IF ips.attempt + 1 < Attempts
              THEN [ips EXCEPT !.attempt = @ + 1, !.pc = "fetch"]
              ELSE [ips EXCEPT !.attempt = @ + 1, !.pc = "done",
                               !.result = [private_ip |-> ips.private_ip,
                                           public_ip |-> ips.public_ip]]
    /\ UNCHANGED <<vms, last, run, procs, pure, cloud, job, http, mr, blob, poll, snap>>

NextIps == StartResolve \/ FetchNic \/ SleepIps

SpecIps == InitIps /\ [][NextIps]_vars

\* ------------------------------------- the merge request of repeated runs
\* the answers to POST /merge_requests: created, a conflict, a refusal
MrStatuses == {201, 409, 403}

\* _find_open_mr_for_source_branch once its GET has answered 200: arr[0],
\* the iid of the first open merge request of the branch, 0 for None
RECURSIVE FindOpenMr(_, _, _)
FindOpenMr(opened, i, source_branch) ==
    IF i > Len(opened) THEN 0
    ELSE IF opened[i].source_branch = source_branch THEN opened[i].iid
    ELSE FindOpenMr(opened, i + 1, source_branch)

InitReq ==
    /\ vms = <<>>
    /\ last = NoCall
    /\ run = NoRun
    /\ procs = <<>>
    /\ pure = NoPure
    /\ Idle

\* a call of create_delete_lab_mr for the lab up to the POST of the merge
\* request: the branch named after the clock, which has or has not moved on
\* since the call before, ensure_branch and the commits, any of which may
\* raise
StartRun ==
    /\ mr.pc \in {"idle", "done"}
    /\ mr.runs < MaxRuns
    /\ \E tick \in {0, 1}, branch_ok \in BOOLEAN, commits_ok \in BOOLEAN :
          LET unique == mr.clock + tick
              exists == unique \in mr.branches
              made == exists \/ branch_ok
          IN  mr' = [mr EXCEPT
                       !.clock = unique, !.runs = @ + 1, !.branch = unique,
                       !.branches = IF made THEN @ \cup {unique} ELSE @,
                       !.status = 0, !.found = 0, !.used = 0,
                       !.outcome = IF made /\ commits_ok THEN "none" ELSE "raised",
                       !.pc = IF made /\ commits_ok THEN "post" ELSE "done"]
    /\ UNCHANGED <<vms, last, run, procs, pure, cloud, job, http, blob, poll, ips, snap>>

\* POST /merge_requests and the branches on res.status_code; the project
\* answers 409 when the source branch has an open merge request
PostMr ==
    /\ mr.pc = "post"
    /\ \E status \in MrStatuses :
          /\ status = 201 => FindOpenMr(mr.opened, 1, mr.branch) = 0
          /\ status = 409 => FindOpenMr(mr.opened, 1, mr.branch) # 0
          /\ mr' = IF status \in {200, 201}
                   THEN [mr EXCEPT
                           !.status = status, !.created = @ + 1,
                           !.opened = Append(@, [source_branch |-> mr.branch,
                                                 iid |-> mr.created + 1]),
                           !.used = mr.created + 1,
                           !.outcome = "returned", !.pc = "done"]
                   ELSE IF status = 409
                   THEN [mr EXCEPT !.status = status, !.pc = "lookup"]
                   ELSE [mr EXCEPT !.status = status, !.outcome = "raised",
                                   !.pc = "done"]
    /\ UNCHANGED <<vms, last, run, procs, pure, cloud, job, http, blob, poll, ips, snap>>

\* _find_open_mr_for_source_branch(branch) after the 409 and `if not mr:
\* raise`; a GET that does not answer 200 gives None
LookupMr ==
    /\ mr.pc = "lookup"
    /\ \E get_ok \in BOOLEAN :
          LET found == IF get_ok THEN FindOpenMr(mr.opened, 1, mr.branch) ELSE 0
          IN  mr' = [mr EXCEPT !.found = found, !.used = found,
                               !.outcome = IF found # 0 THEN "returned" ELSE "raised",
                               !.pc = "done"]
    /\ UNCHANGED <<vms, last, run, procs, pure, cloud, job, http, blob, poll, ips, snap>>

\* an open merge request is merged (its auto-merge was queued) or closed
MrGoes ==
    /\ mr.opened # <<>>
    /\ \E i \in 1..Len(mr.opened) :
          mr' = [mr EXCEPT !.opened = SubSeq(@, 1, i - 1) \o SubSeq(@, i + 1, Len(@))]
    /\ UNCHANGED <<vms, last, run, procs, pure, cloud, job, http, blob, poll, ips, snap>>

NextReq == StartRun \/ PostMr \/ LookupMr \/ MrGoes

SpecReq == InitReq /\ [][NextReq]_vars

\* ------------------------------------------------------ create_template_vm
TAG_TEMPLATE_VM == "TemplateVM"

TAG_TERRALABS_USER == "TerraLabsUser"

\* TL_TEMPLATE_RG
TemplateRg == <<"t">>

\* _tags(user_id)
TemplateTags(user_id) ==
    Tags4(TAG_TERRALABS_USER, user_id, TAG_TEMPLATE_VM, StrTrue,
          "GeneratedWith", <<"A", "P", "I">>, "CreatedOnDate", <<"1">>)

\* a search that compares the user tag as it is written
IsTemplateOfAsWritten(tags, target) ==
    /\ Lower(TagGet(tags, TAG_TEMPLATE_VM, EmptyStr)) = StrTrue
    /\ OrEmpty(TagGet(tags, TAG_TERRALABS_USER, None)) = target

\* the test of _find_existing_template_vm on one VM, target being the
\* requester stripped and lower-cased
IsTemplateOf(tags, target) ==
    /\ Lower(TagGet(tags, TAG_TEMPLATE_VM, EmptyStr)) = StrTrue
    /\ Lower(Strip(OrEmpty(TagGet(tags, TAG_TERRALABS_USER, None)))) = target

\* _find_existing_template_vm: the first such VM of list_all(), 0 for None
RECURSIVE FindTemplateFrom(_, _, _)
FindTemplateFrom(inv, i, target) ==
    IF i > Len(inv) THEN 0
    ELSE IF IsTemplateOf(inv[i].tags, target) THEN i
    ELSE FindTemplateFrom(inv, i + 1, target)

FindExistingTemplateVm(inv, user_id) ==
    FindTemplateFrom(inv, 1, Lower(Strip(OrEmpty(user_id))))

\* the tags a VM of the inventory may carry: the template of user a as the
\* code writes it, the same with other case and blanks, the template of
\* user b, a VM of user a that is no template, a lab VM
TemplateTagOptions ==
    { TemplateTags(<<"a">>),
      Tags2(TAG_TERRALABS_USER, <<" ", "A">>, TAG_TEMPLATE_VM, <<"T", "R", "U", "E">>),
      TemplateTags(<<"b">>),
      Tags2(TAG_TERRALABS_USER, <<"a">>, "GeneratedWith", <<"A", "P", "I">>),
      Tags2("LabId", LabX, "LabCourse", CourseC) }

\* the requesters: u.email of a registered user
TemplateUsers == {<<"a">>, <<"b">>}

\* the template VMs of a user in an inventory
TemplatesOf(inv, user_id) ==
    {i \in 1..Len(inv) : IsTemplateOf(inv[i].tags, Lower(Strip(user_id)))}

InitTpl ==
    /\ vms \in {inv \in Inventories(TemplateTagOptions) :
                  \A u \in TemplateUsers : Cardinality(TemplatesOf(inv, u)) <= 1}
    /\ last = NoCall
    /\ run = NoRun
    /\ procs = <<>>
    /\ pure = NoPure
    /\ Idle

\* create_template_vm for a user with a template VM: get, the tag update
\* whose failure is passed over, and the return of the existing VM; an
\* exception of get leaves the call
ReturnExistingTemplate ==
    \E user_id \in TemplateUsers, answer \in {"ok", "update_failed", "get_failed"} :
        LET existing == FindExistingTemplateVm(vms, user_id) IN
        /\ existing # 0
        /\ vms' = IF answer = "ok"
                  THEN [vms EXCEPT ![existing].tags = TemplateTags(user_id)]
                  ELSE vms
        /\ last' = [NoCall EXCEPT !.op = "create_template", !.who = user_id,
                                  !.result = IF answer = "get_failed" THEN 0 ELSE existing,
                                  !.raised = (answer = "get_failed")]
        /\ UNCHANGED <<run, procs, pure, cloud, job, http, mr, blob, poll, ips, snap>>

\* create_template_vm for a user without one: the NIC, then the VM; an
\* exception of either leaves the call, the second one after the NIC was
\* made and with or without a VM left behind by the failed creation
CreateNewTemplate ==
    \E user_id \in TemplateUsers, answer \in {"ok", "nic_failed", "vm_failed", "vm_left"} :
        LET nic == [kind |-> 2, rg |-> TemplateRg, tags |-> TemplateTags(user_id),
                    present |-> TRUE]
            vm == [rg |-> TemplateRg, tags |-> TemplateTags(user_id)]
        IN
        /\ FindExistingTemplateVm(vms, user_id) = 0
        /\ answer \in {"vm_failed", "nic_failed"} => Len(cloud) < NumRes
        /\ cloud' = IF answer = "nic_failed" THEN cloud ELSE Append(cloud, nic)
        /\ vms' = IF answer \in {"ok", "vm_left"} THEN Append(vms, vm) ELSE vms
        /\ last' = [NoCall EXCEPT !.op = "create_template", !.who = user_id,
                                  !.result = IF answer = "ok" THEN Len(vms) + 1 ELSE 0,
                                  !.raised = (answer # "ok")]
        /\ UNCHANGED <<run, procs, pure, job, http, mr, blob, poll, ips, snap>>

NextTpl == ReturnExistingTemplate \/ CreateNewTemplate

SpecTpl == InitTpl /\ [][NextTpl]_vars

\* ------------------------------------------ snapshot_and_delete_template_vm
\* the test of _assert_ownership on the VM as virtual_machines.get returns it
OwnedBy(tags, user_id) ==
    Lower(Strip(OrEmpty(TagGet(tags, TAG_TERRALABS_USER, None))))
        = Lower(Strip(OrEmpty(user_id)))

\* the inventory without the VM at position i
WithoutVm(inv, i) == SubSeq(inv, 1, i - 1) \o SubSeq(inv, i + 1, Len(inv))

InitSnap ==
    /\ vms \in {inv \in Inventories(TemplateTagOptions) :
                  \A u \in TemplateUsers : Cardinality(TemplatesOf(inv, u)) <= 1}
    /\ last = NoCall
    /\ run = NoRun
    /\ procs = <<>>
    /\ pure = NoPure
    /\ Idle

\* _find_existing_template_vm and `if not found`
StartSnapshot ==
    /\ snap.pc \in {"idle", "done"}
    /\ \E user_id \in TemplateUsers :
          LET found == FindExistingTemplateVm(vms, user_id)
          IN  snap' = [NoSnap EXCEPT !.user_id = user_id, !.found = found,
                                     !.size = Len(vms),
                                     !.result = IF found = 0 THEN "no_vm" ELSE "none",
                                     !.pc = IF found = 0 THEN "done" ELSE "own"]
    /\ UNCHANGED <<vms, last, run, procs, pure, cloud, job, http, mr, blob, poll, ips>>

\* the VM is given to a lab between the listing and the get of
\* _assert_ownership
Retagged ==
    /\ snap.pc = "own"
    /\ OwnedBy(vms[snap.found].tags, snap.user_id)
    /\ vms' = [vms EXCEPT ![snap.found].tags = Tags2("LabId", LabX, "LabCourse", CourseC)]
    /\ UNCHANGED <<last, run, procs, pure, cloud, job, http, mr, blob, poll, ips, snap>>

\* _assert_ownership, which raises PermissionError or what its get raises,
\* and the get of the VM and of its OS disk id
AssertOwnership ==
    /\ snap.pc = "own"
    /\ \E get_ok \in BOOLEAN :
          snap' = IF get_ok /\ OwnedBy(vms[snap.found].tags, snap.user_id)
                  THEN [snap EXCEPT !.pc = "snapshot"]
                  ELSE [snap EXCEPT !.result = "raised", !.pc = "done"]
    /\ UNCHANGED <<vms, last, run, procs, pure, cloud, job, http, mr, blob, poll, ips>>

\* a flow that goes on to the deletions whether or not the snapshot was made
CreateSnapshotOrNot ==
    /\ snap.pc = "snapshot"
    /\ \E ok \in BOOLEAN :
          snap' = [snap EXCEPT !.calls = Append(@, [op |-> "snapshot", ok |-> ok]),
                               !.snapshot = ok, !.pc = "delete_vm"]
    /\ UNCHANGED <<vms, last, run, procs, pure, cloud, job, http, mr, blob, poll, ips>>

\* snapshots.begin_create_or_update(...).result(), outside any try
CreateSnapshot ==
    /\ snap.pc = "snapshot"
    /\ \E ok \in BOOLEAN :
          snap' = [snap EXCEPT !.calls = Append(@, [op |-> "snapshot", ok |-> ok]),
                               !.snapshot = ok,
                               !.result = IF ok THEN @ ELSE "raised",
                               !.pc = IF ok THEN "delete_vm" ELSE "done"]
    /\ UNCHANGED <<vms, last, run, procs, pure, cloud, job, http, mr, blob, poll, ips>>

\* virtual_machines.begin_delete(rg, name).result(), outside any try
DeleteVm ==
    /\ snap.pc = "delete_vm"
    /\ \E ok \in BOOLEAN :
          /\ vms' = IF ok THEN WithoutVm(vms, snap.found) ELSE vms
          /\ snap' = [snap EXCEPT !.calls = Append(@, [op |-> "delete_vm", ok |-> ok]),
                                  !.deleted = IF ok THEN @ \cup {"vm"} ELSE @,
                                  !.result = IF ok THEN @ ELSE "raised",
                                  !.pc = IF ok THEN "delete_nic" ELSE "done"]
    /\ UNCHANGED <<last, run, procs, pure, cloud, job, http, mr, blob, poll, ips>>

\* _delete_nic_if_exists inside try/except
DeleteNic ==
    /\ snap.pc = "delete_nic"
    /\ \E ok \in BOOLEAN :
          snap' = [snap EXCEPT !.calls = Append(@, [op |-> "delete_nic", ok |-> ok]),
                               !.deleted = IF ok THEN @ \cup {"nic"} ELSE @,
                               !.pc = "delete_disk"]
    /\ UNCHANGED <<vms, last, run, procs, pure, cloud, job, http, mr, blob, poll, ips>>

\* disks.begin_delete(...).result() inside try/except, and the return
DeleteDisk ==
    /\ snap.pc = "delete_disk"
    /\ \E ok \in BOOLEAN :
          snap' = [snap EXCEPT !.calls = Append(@, [op |-> "delete_disk", ok |-> ok]),
                               !.deleted = IF ok THEN @ \cup {"disk"} ELSE @,
                               !.result = "ok", !.pc = "done"]
    /\ UNCHANGED <<vms, last, run, procs, pure, cloud, job, http, mr, blob, poll, ips>>

NextSnap ==
    \/ StartSnapshot
    \/ Retagged
    \/ AssertOwnership
    \/ CreateSnapshot
    \/ DeleteVm
    \/ DeleteNic
    \/ DeleteDisk

SpecSnap == InitSnap /\ [][NextSnap]_vars

\* ----------------------------------------- find_vm_for_student on claimed VMs
\* the tags of an inventory with claims in it: a published member claimed
\* with blanks and capitals in the tag, an unpublished member claimed by a, a
\* free published member, a member whose occupant tag is one blank, a
\* published member claimed by b
FindTagOptions ==
    { Tags4("LabId", LabX, "LabCourse", CourseC, TAG_PUBLISHED, StrTrue,
            TAG_OCCUPIED_BY, <<" ", "A">>),
      Tags3("LabId", LabX, "LabCourse", CourseC, TAG_OCCUPIED_BY, <<"a">>),
      Tags3("LabId", LabX, "LabCourse", CourseC, TAG_PUBLISHED, StrTrue),
      Tags3("LabId", LabY, "LabCourse", CourseC, TAG_OCCUPIED_BY, <<" ">>),
      Tags4("LabId", LabY, "LabCourse", CourseC, TAG_PUBLISHED, StrTrue,
            TAG_OCCUPIED_BY, <<"b">>) }

\* the requesters find_vm_for_student is written for: a user's e-mail, None
\* or the empty string, a string of blanks
Requesters == {u.who : u \in Users} \cup {None, EmptyStr, <<" ">>}

InitFind ==
    /\ vms \in Inventories(FindTagOptions)
    /\ last = NoCall
    /\ run = NoRun
    /\ procs = <<>>
    /\ pure = NoPure
    /\ Idle

\* one call of find_vm_for_student
FindVmCall ==
    \E who \in Requesters :
        /\ last' = [NoCall EXCEPT !.op = "find", !.who = who,
                                  !.result = FindVmForStudent(vms, who)]
        /\ run' = NoRun
        /\ UNCHANGED <<vms, procs, pure, cloud, job, http, mr, blob, poll, ips, snap>>

NextFind == FindVmCall \/ EnrollCall \/ SetPublishedCall

SpecFind == InitFind /\ [][NextFind]_vars

\* ------------------------------------------------------------------ claims
Occupant(vm) == TagGet(vm.tags, TAG_OCCUPIED_BY, None)

Members(inv, lab_id, course) ==
    {i \in 1..Len(inv) : RgIsAllowed(inv[i].rg) /\ VmMatchesLab(inv[i], lab_id, course)}

SomeMemberPublished(inv, lab_id, course) ==
    \E i \in Members(inv, lab_id, course) : IsPublishedValue(inv[i].tags)

\* C1: starting from a published lab with M free members, the enroll calls made
\* in a row for that lab return M pairwise distinct VMs on the first M calls
\* and None (0) on call M+1.
EnrollRunDistinctThenNone ==
    run.published =>
        \A i \in 1..Len(run.results) :
            /\ i <= run.free =>
                   /\ run.results[i] # 0
                   /\ \A j \in 1..(i - 1) : run.results[j] # run.results[i]
            /\ i = run.free + 1 => run.results[i] = 0

EnrollRunWitness ==
    /\ run.published
    /\ run.free >= 2
    /\ Len(run.results) = run.free + 1

\* C3: an enroll call never changes the occupant tag of a VM whose occupant tag
\* is already non-empty.
EnrollKeepsExistingClaim ==
    [][\A i \in 1..NumVMs :
           (last'.op = "enroll" /\ Truthy(Occupant(vms[i])))
               => Occupant(vms'[i]) = Occupant(vms[i])]_vars

EnrollPassedOccupiedWitness ==
    /\ last.op = "enroll"
    /\ last.result # 0
    /\ \E i \in Members(vms, last.lab_id, last.course) :
           /\ i < last.result
           /\ Truthy(Occupant(vms[i]))
           /\ Occupant(vms[i]) # last.who

\* C4: once enroll has returned VM v to a requester, find_vm_for_student of
\* that requester returns v.
EnrollThenFindSame ==
    (last.op = "enroll" /\ last.result # 0)
        => FindVmForStudent(vms, last.who) = last.result

\* C5: at most one VM carries a given requester's id in occupiedbystudent.
OneVmPerRequester ==
    \A u \in Users :
        Cardinality({i \in 1..NumVMs : Occupant(vms[i]) = u.who}) <= 1

\* C6: enroll on a lab none of whose members carries a true Published tag
\* returns None (0) and updates no VM.
EnrollUnpublishedIsNoOp ==
    [][(last'.op = "enroll" /\ ~SomeMemberPublished(vms, last'.lab_id, last'.course))
           => (last'.result = 0 /\ vms' = vms)]_vars

EnrollUnpublishedWitness ==
    /\ last.op = "enroll"
    /\ last.result = 0
    /\ ~SomeMemberPublished(vms, last.lab_id, last.course)
    /\ FreeMembers(vms, last.lab_id, last.course) # {}

\* the key list_published_labs files a VM under
LabKey(vm) ==
    <<GetTag(vm.tags, TAG_KEYS_LAB_ID), OrEmpty(GetTag(vm.tags, TAG_KEYS_COURSE))>>

EqualIgnoringCase(s, t) ==
    /\ Len(s) = Len(t)
    /\ \A i \in 1..Len(s) : LowerChar(s[i]) = LowerChar(t[i])

CarriesTrueFlag(vm) ==
    /\ TAG_PUBLISHED \in DOMAIN vm.tags
    /\ \E t \in {<<"t", "r", "u", "e">>, <<"1">>, <<"y", "e", "s">>} :
           EqualIgnoringCase(vm.tags[TAG_PUBLISHED], t)

LabVms(inv) ==
    {i \in 1..Len(inv) :
        RgIsAllowed(inv[i].rg) /\ Truthy(GetTag(inv[i].tags, TAG_KEYS_LAB_ID))}

\* C7: list_published_labs lists every lab once, and reports it published if and
\* only if at least one member VM carries Published = true, 1 or yes in any
\* letter case.
ListPublishedIsAnyMember ==
    last.op = "list" =>
        LET keys == {LabKey(vms[i]) : i \in LabVms(vms)}
        IN  /\ {<<last.labs[j].lab_id, last.labs[j].course>> : j \in 1..Len(last.labs)} = keys
            /\ Len(last.labs) = Cardinality(keys)
            /\ \A j \in 1..Len(last.labs) :
                   last.labs[j].published <=>
                       \E i \in LabVms(vms) :
                           /\ LabKey(vms[i]) = <<last.labs[j].lab_id, last.labs[j].course>>
                           /\ CarriesTrueFlag(vms[i])

\* only the last member in listing order carries the flag
ListPublishedLastMemberWitness ==
    /\ last.op = "list"
    /\ \E j \in 1..Len(last.labs) :
           LET M == {i \in LabVms(vms) :
                        LabKey(vms[i]) = <<last.labs[j].lab_id, last.labs[j].course>>}
           IN  /\ last.labs[j].published
               /\ Cardinality(M) >= 2
               /\ \A i \in M : CarriesTrueFlag(vms[i]) <=> (\A k \in M : k <= i)

ReportedAs(inv, lab_id, course, published) ==
    LET labs == ListPublishedLabs(inv)
    IN  \E j \in 1..Len(labs) :
            /\ labs[j].lab_id = lab_id
            /\ labs[j].course = course
            /\ labs[j].published = published

\* C8: after set_lab_published(published=False) returns, no member carries the
\* Published tag and the lab is reported unpublished; after published=True
\* every member carries Published = "true" and the lab is reported published.
SetPublishedReachesAllMembers ==
    (last.op = "set_published" /\ ~last.raised) =>
        LET M == Members(vms, last.lab_id, last.course)
        IN  /\ last.published =>
                   \A i \in M : /\ TAG_PUBLISHED \in DOMAIN vms[i].tags
                                /\ vms[i].tags[TAG_PUBLISHED] = <<"t", "r", "u", "e">>
            /\ ~last.published => \A i \in M : TAG_PUBLISHED \notin DOMAIN vms[i].tags
            /\ M # {} => ReportedAs(vms, last.lab_id, last.course, last.published)
            /\ ~ReportedAs(vms, last.lab_id, last.course, ~last.published)

UnpublishedTwoMembersWitness ==
    /\ last.op = "set_published"
    /\ ~last.raised
    /\ ~last.published
    /\ last.updated >= 2
    /\ Cardinality(Members(vms, last.lab_id, last.course)) >= 2

\* C9: when the tag update of one member fails, set_lab_published still
\* processes the other members and returns the number of successful updates.
SetPublishedContinuesOnError ==
    LET M == Members(vms, last.lab_id, last.course)
    IN  (last.op = "set_published" /\ M \cap last.fails # {}) =>
            /\ ~last.raised
            /\ last.updated = Cardinality(M \ last.fails)
            /\ \A i \in M \ last.fails :
                   IF last.published
                   THEN TagGet(vms[i].tags, TAG_PUBLISHED, None) = <<"t", "r", "u", "e">>
                   ELSE TAG_PUBLISHED \notin DOMAIN vms[i].tags

\* C2: enroll reads and writes in separate steps, so two interleaved calls
\* can return the same VM; the VM then carries the occupant written by the
\* later of the updates.
LaterEnrollWriteWins ==
    \A v \in 1..NumVMs :
        LET W == {p \in 1..NumProcs : procs[p].pc = "done" /\ procs[p].result = v}
        IN  W # {} =>
                \E p \in W :
                    /\ \A q \in W : procs[q].order <= procs[p].order
                    /\ Occupant(vms[v]) = procs[p].who

DoubleAssignmentWitness ==
    \E p, q \in 1..NumProcs :
        /\ procs[p].pc = "done"
        /\ procs[q].pc = "done"
        /\ procs[p].result # 0
        /\ procs[p].result = procs[q].result
        /\ procs[p].who # procs[q].who
        /\ procs[p].order < procs[q].order

\* C10: _get_tag returns the value of the first alias, in list order, present
\* in tags with a non-empty value, and None when there is none.
GetTagIsFirstNonEmptyAlias ==
    pure.done =>
        LET hits == {i \in 1..Len(pure.keys) :
                        /\ pure.keys[i] \in DOMAIN pure.tags
                        /\ pure.tags[pure.keys[i]] # EmptyStr}
        IN  IF hits = {} THEN pure.result = None
            ELSE \E i \in hits :
                     /\ \A j \in hits : i <= j
                     /\ pure.result = pure.tags[pure.keys[i]]

GetTagOrderWitness ==
    /\ pure.done
    /\ pure.tags = Tags2("lab_id", LabX, "LabId", LabY)
    /\ pure.keys = <<"LabId", "lab_id">>
    /\ pure.result = LabY

\* the pairs <<a, p>> at which VM i stands in the member lists of labs
Places(labs, i) ==
    {ap \in (1..Len(labs)) \X (1..NumVMs) :
        ap[2] <= Len(labs[ap[1]].vms) /\ labs[ap[1]].vms[ap[2]] = i}

\* C11: in the result of list_running_labs every VM in the allowed scope with a
\* resolvable lab_id stands in exactly one member list, that of the aggregate
\* keyed by its resolved (lab_id, course); no two aggregates share a key; a VM
\* with no resolvable lab_id stands in none.
RunningLabsPartitionVms ==
    last.op = "running" =>
        /\ \A i \in 1..Len(vms) :
              LET lab_id == GetTag(vms[i].tags, TAG_KEYS_LAB_ID)
                  course == OrEmpty(GetTag(vms[i].tags, TAG_KEYS_COURSE))
              IN  IF RgIsAllowed(vms[i].rg) /\ Truthy(lab_id)
                  THEN /\ Cardinality(Places(last.labs, i)) = 1
                       /\ \A ap \in Places(last.labs, i) :
                             /\ last.labs[ap[1]].lab_id = lab_id
                             /\ last.labs[ap[1]].course = course
                  ELSE Places(last.labs, i) = {}
        /\ \A a, b \in 1..Len(last.labs) :
              a # b => <<last.labs[a].lab_id, last.labs[a].course>>
                         # <<last.labs[b].lab_id, last.labs[b].course>>

\* two labs with the same lab_id and different courses are listed apart
RunningLabsTwoCoursesWitness ==
    /\ last.op = "running"
    /\ Len(last.labs) = 2
    /\ last.labs[1].lab_id = last.labs[2].lab_id
    /\ last.labs[1].course # last.labs[2].course

\* the value of the first member, in listing order, whose tags carry one of
\* keys non-empty; None when no member does
RECURSIVE FirstCarried(_, _, _, _)
FirstCarried(inv, members, keys, p) ==
    IF p > Len(members) THEN None
    ELSE IF Truthy(GetTag(inv[members[p]].tags, keys))
    THEN GetTag(inv[members[p]].tags, keys)
    ELSE FirstCarried(inv, members, keys, p + 1)

\* C12: created_at (expires_at) of each aggregate is the value of the first
\* member in listing order that carries a non-empty created-at (expires-at)
\* tag, also when that member is not the first member of the aggregate.
RunningLabsMetadataFromFirstCarrier ==
    last.op = "running" =>
        \A a \in 1..Len(last.labs) :
            /\ OrEmpty(last.labs[a].created_at)
                 = OrEmpty(FirstCarried(vms, last.labs[a].vms, TAG_KEYS_CREATED_AT, 1))
            /\ OrEmpty(last.labs[a].expires_at)
                 = OrEmpty(FirstCarried(vms, last.labs[a].vms, TAG_KEYS_EXPIRES_AT, 1))

\* a resource carries the tags of the lab, compared after trimming and
\* case-folding
SameLab(r, lab_id, course) ==
    /\ EqualIgnoringCase(Strip(OrEmpty(GetTag(r.tags, TAG_KEYS_LAB_ID))), Strip(lab_id))
    /\ EqualIgnoringCase(Strip(OrEmpty(GetTag(r.tags, TAG_KEYS_COURSE))), Strip(course))

\* the existing resources of category k in the target group tagged for the lab
Tagged(c, k, lab_id, course) ==
    {i \in 1..Len(c) : /\ c[i].kind = k
                       /\ c[i].present
                       /\ c[i].rg = TARGET_RESOURCE_GROUP
                       /\ SameLab(c[i], lab_id, course)}

NamesOf(list) == {list[p].name : p \in 1..Len(list)}

\* C13: a dry run issues no delete call, leaves the deleted lists empty in
\* every category and the resources as they were, and returns as matched, in
\* every category, the tagged resources of the lab.
DryRunDeletesNothing ==
    [][job'.dry_run =>
          /\ job'.calls = <<>>
          /\ cloud' = cloud
          /\ \A k \in 1..Len(Kinds) : job'.summary[k].deleted = <<>>
          /\ job'.azure = "returned" =>
                \A k \in 1..Len(Kinds) :
                    /\ NamesOf(job'.summary[k].matched)
                         = Tagged(cloud', k, job'.lab_id, job'.course)
                    /\ Len(job'.summary[k].matched)
                         = Cardinality(Tagged(cloud', k, job'.lab_id, job'.course))]_vars

\* a dry run has returned matches in two categories
DryRunMatchedWitness ==
    /\ job.dry_run
    /\ job.azure = "returned"
    /\ \E k1, k2 \in 1..Len(Kinds) :
          /\ k1 # k2
          /\ job.summary[k1].matched # <<>>
          /\ job.summary[k2].matched # <<>>
    /\ \A i \in 1..Len(cloud) : cloud[i].present

IsPrefix(s, t) == Len(s) <= Len(t) /\ SubSeq(t, 1, Len(s)) = s

\* C14: without dry run, deleted is at every point a prefix of matched in each
\* category, and equals matched when the summary is returned.
DeletedFollowsMatched ==
    ~job.dry_run =>
        \A k \in 1..Len(Kinds) :
            /\ IsPrefix(job.summary[k].deleted, job.summary[k].matched)
            /\ job.azure = "returned" => job.summary[k].deleted = job.summary[k].matched

\* a returned summary with two deletions in one category
DeletedTwoInCategoryWitness ==
    /\ ~job.dry_run
    /\ job.azure = "returned"
    /\ \E k \in 1..Len(Kinds) : Len(job.summary[k].deleted) = 2

\* C15: every delete call names TARGET_RESOURCE_GROUP and a resource of that
\* group; a resource of another group stays, whatever its tags.
DeletesStayInTargetGroup ==
    /\ \A p \in 1..Len(job.calls) :
          /\ job.calls[p].rg = TARGET_RESOURCE_GROUP
          /\ cloud[job.calls[p].name].rg = TARGET_RESOURCE_GROUP
    /\ \A i \in 1..Len(cloud) : cloud[i].rg # TARGET_RESOURCE_GROUP => cloud[i].present

\* a call deleted a resource of the lab while one with the same tags stands
\* in another group
OtherGroupSparedWitness ==
    /\ job.azure = "returned"
    /\ job.calls # <<>>
    /\ \E i \in 1..Len(cloud) :
          /\ cloud[i].rg # TARGET_RESOURCE_GROUP
          /\ SameLab(cloud[i], job.lab_id, job.course)
          /\ cloud[i].present

\* C16: a delete call is issued only for a resource whose resolved lab_id and
\* course both equal the requested ones after trimming and case-folding; every
\* other resource stays; a call without course raises with nothing listed and
\* nothing deleted.
DeletesOnlyBothTagsEqual ==
    /\ \A p \in 1..Len(job.calls) :
          /\ cloud[job.calls[p].name].tags # NoTags
          /\ SameLab(cloud[job.calls[p].name], job.lab_id, job.course)
    /\ \A i \in 1..Len(cloud) :
          ~SameLab(cloud[i], <<"X">>, CourseC) => cloud[i].present
    /\ (job.pc # "idle" /\ ~Truthy(job.course)) =>
          /\ job.azure = "raised"
          /\ job.kind = 0
          /\ job.queue = <<>>
          /\ job.summary = NoSummary
          /\ job.calls = <<>>

\* a resource tagged with other case and blanks was deleted and a resource of
\* the same lab_id under another course stands
DeletedFoldedSparedOtherWitness ==
    /\ job.azure = "returned"
    /\ \E p \in 1..Len(job.calls), i \in 1..Len(cloud) :
          /\ GetTag(cloud[job.calls[p].name].tags, TAG_KEYS_LAB_ID) = <<" ", "X">>
          /\ ~cloud[job.calls[p].name].present
          /\ GetTag(cloud[i].tags, TAG_KEYS_LAB_ID) = LabX
          /\ GetTag(cloud[i].tags, TAG_KEYS_COURSE) = CourseD
          /\ cloud[i].present

\* C17: delete_lab goes on to the next stage when a stage fails and always
\* returns the report: after a failed cloud deletion or a failed version-control
\* call the report is returned, and stage 2 has run after a failure of stage 1.
DeleteLabReportsStageFailures ==
    (job.pc = "done" /\ Truthy(job.course)) =>
        /\ job.report = "returned"
        /\ job.delete_mr # "none"

\* C18: a delete whose target is gone and is answered NotFound is not fatal:
\* the cloud teardown does not fail on it.
NotFoundIsNotFatal ==
    \A p \in 1..Len(job.calls) :
        job.calls[p].answer = "not_found" => job.azure # "raised"

\* C19: after a call without dry run has returned its summary, a second call
\* with the same lab_id and course matches nothing and issues no delete call.
SecondDeleteMatchesNothing ==
    ( /\ job.pc # "idle"
      /\ job.before.azure = "returned"
      /\ ~job.before.dry_run
      /\ job.before.lab_id = job.lab_id
      /\ job.before.course = job.course ) =>
        /\ job.summary = NoSummary
        /\ job.calls = <<>>
        /\ job.azure # "raised"

\* the second call has returned its summary after the first deleted a resource
SecondDeleteReturnedWitness ==
    /\ job.before.azure = "returned"
    /\ ~job.before.dry_run
    /\ job.before.lab_id = job.lab_id
    /\ job.before.course = job.course
    /\ ~job.dry_run
    /\ job.azure = "returned"
    /\ \E i \in 1..Len(cloud) :
          /\ cloud[i].rg = TARGET_RESOURCE_GROUP
          /\ SameLab(cloud[i], job.lab_id, job.course)
          /\ ~cloud[i].present

\* C20: a call whose every request is answered 429, 500, 502, 503 or 504 makes
\* exactly Retries requests, sleeps between them and then raises the last
\* transient error.
TransientStatusTriedRetriesTimes ==
    ( /\ http.pc = "done"
      /\ \A p \in 1..Len(http.log) :
            http.log[p].kind = "response" /\ http.log[p].status \in RetryStatuses ) =>
        /\ Len(http.log) = Retries
        /\ Len(http.sleeps) = Retries - 1
        /\ http.outcome = "raised"
        /\ http.result.status = http.log[Retries].status

RECURSIVE Pow2(_)
Pow2(n) == IF n = 0 THEN 1 ELSE 2 * Pow2(n - 1)

ConnectionFailure(answer) == answer.kind \in {"timeout", "connection"}

Succeeds(answer) == answer.kind = "response" /\ answer.status \notin RetryStatuses

\* C21: the sleep before attempt k+1 is Backoff * 2^(k-1); a call whose every
\* request fails with a timeout or a connection error makes exactly Retries
\* requests, sleeps Retries - 1 times and raises the last error; a call whose
\* request k succeeds returns that response and makes no further request.
RetriesOnConnectionFailure ==
    /\ \A k \in 1..Len(http.sleeps) : http.sleeps[k] = Backoff * Pow2(k - 1)
    /\ ( /\ http.pc = "done"
         /\ \A p \in 1..Len(http.log) : ConnectionFailure(http.log[p]) ) =>
          /\ Len(http.log) = Retries
          /\ Len(http.sleeps) = Retries - 1
          /\ http.outcome = "raised"
          /\ http.result.kind = http.log[Retries].kind
    /\ \A p \in 1..Len(http.log) :
          Succeeds(http.log[p]) =>
              /\ p = Len(http.log)
              /\ Len(http.sleeps) = p - 1
              /\ http.pc = "done"
              /\ http.outcome = "returned"
              /\ http.result = http.log[p]

\* a timeout, a connection error and a timeout: the call gave up
RetriesExhaustedWitness ==
    /\ http.pc = "done"
    /\ Len(http.log) = Retries
    /\ http.log[1].kind = "timeout"
    /\ http.log[2].kind = "connection"
    /\ http.log[Retries].kind = "timeout"
    /\ http.outcome = "raised"

ClientError(answer) ==
    /\ answer.kind = "response"
    /\ answer.status >= 400
    /\ answer.status < 500
    /\ answer.status # 429

\* C22: a response with a 4xx status other than 429 ends the call at that
\* request: it is returned as it is, not retried and not raised; when it
\* answers the first request, one request is made and nothing is slept.
ClientErrorReturnedAsIs ==
    \A p \in 1..Len(http.log) :
        ClientError(http.log[p]) =>
            /\ p = Len(http.log)
            /\ Len(http.sleeps) = p - 1
            /\ http.pc = "done"
            /\ http.outcome = "returned"
            /\ http.result = http.log[p]

\* the first request was answered 409 and the call returned it
ConflictReturnedWitness ==
    /\ http.pc = "done"
    /\ http.log = <<[kind |-> "response", status |-> 409]>>
    /\ http.outcome = "returned"
    /\ http.result.status = 409

\* the commits of a kind among the attempts, in order
AttemptsOf(kind) == SelectSeq(mr.attempts, LAMBDA a : a.kind = kind)

RECURSIVE PathsOf(_)
PathsOf(attempts) ==
    IF attempts = <<>> THEN <<>> ELSE Head(attempts).paths \o PathsOf(Tail(attempts))

\* the loop over the batches has ended
BatchLoopEnded ==
    /\ mr.paths # <<>>
    /\ mr.attempts # <<>>
    /\ mr.pc \in {"marker", "create", "done"}

\* C23: the batches are consecutive slices of at most BATCH paths that make up
\* the sorted, duplicate-free path list; after a failed batch commit each path
\* of the batch is committed on its own, and no path is committed on its own
\* otherwise; failed_paths holds the paths whose own commit failed, in order.
BatchesPartitionAndFallBack ==
    /\ \A a, b \in 1..Len(mr.paths) : a < b => mr.paths[a] < mr.paths[b]
    /\ {mr.paths[a] : a \in 1..Len(mr.paths)} = {mr.raw[a] : a \in 1..Len(mr.raw)}
    /\ BatchLoopEnded =>
          /\ PathsOf(AttemptsOf("batch")) = mr.paths
          /\ \A q \in 1..Len(mr.attempts) :
                LET at == mr.attempts[q] IN
                /\ at.kind = "batch" =>
                      /\ Len(at.paths) >= 1
                      /\ Len(at.paths) <= BATCH
                      /\ IF at.ok
                         THEN q = Len(mr.attempts) \/ mr.attempts[q + 1].kind # "single"
                         ELSE \A k \in 1..Len(at.paths) :
                                 /\ q + k <= Len(mr.attempts)
                                 /\ mr.attempts[q + k].kind = "single"
                                 /\ mr.attempts[q + k].paths = <<at.paths[k]>>
                /\ at.kind = "single" =>
                      \E b \in 1..(q - 1) :
                          /\ mr.attempts[b].kind = "batch"
                          /\ ~mr.attempts[b].ok
                          /\ q - b <= Len(mr.attempts[b].paths)
                          /\ at.paths = <<mr.attempts[b].paths[q - b]>>
          /\ mr.failed_paths
               = PathsOf(SelectSeq(mr.attempts, LAMBDA a : a.kind = "single" /\ ~a.ok))

\* of two batches the first failed; its first and its last path failed again
\* on their own, the others went through
FallbackAfterFailedBatchWitness ==
    /\ mr.pc = "marker"
    /\ Len(AttemptsOf("batch")) = 2
    /\ ~AttemptsOf("batch")[1].ok
    /\ AttemptsOf("batch")[2].ok
    /\ Len(AttemptsOf("batch")[1].paths) = BATCH
    /\ mr.failed_paths = <<1, BATCH>>
    /\ Len(mr.raw) > Len(mr.paths)

\* C24: _delete_state_blob_if_present tries every candidate in order, also
\* after a delete succeeded and after one failed, and returns true exactly
\* when some delete succeeded; without the storage settings it tries nothing
\* and returns false.
CleanupTriesAllReturnsAny ==
    /\ \A n \in 1..Len(blob.tried) : blob.tried[n].name = BlobCandidates[n]
    /\ blob.pc = "done" =>
          /\ Len(blob.tried) \in {0, Len(BlobCandidates)}
          /\ blob.result = (\E n \in 1..Len(blob.tried) : blob.tried[n].ok)
          /\ ~blob.configured => (blob.tried = <<>> /\ ~blob.result)

\* the first delete succeeded, the second raised, the third was still tried
CleanupGoesOnWitness ==
    /\ blob.pc = "done"
    /\ Len(blob.tried) = Len(BlobCandidates)
    /\ blob.tried[1].ok
    /\ ~blob.tried[2].ok
    /\ ~blob.tried[3].ok
    /\ blob.result

\* C25: the state cleanup run a second time, after a run that deleted the
\* blob, finds no blob left and returns success again.
SecondCleanupSucceeds ==
    ( /\ blob.pc = "done"
      /\ blob.before = "true"
      /\ blob.tried # <<>>
      /\ \A n \in 1..Len(blob.tried) : ~blob.tried[n].found ) => blob.result

IsTerminal(status) == status \in {"success", "failed", "canceled", "skipped"}

\* the status of the last poll that did not fail, "unknown" when there is none
RECURSIVE LastObserved(_)
LastObserved(polls) ==
    IF polls = <<>> THEN "unknown"
    ELSE IF polls[Len(polls)] # "error" THEN polls[Len(polls)]
    ELSE LastObserved(SubSeq(polls, 1, Len(polls) - 1))

\* C26: wait_for_pipeline goes on polling only while no poll has seen a
\* terminal status; it returns a terminal status exactly at the first poll
\* that sees one; otherwise it returns once the deadline has passed, with the
\* status of the last poll that did not fail ("unknown" when none did).
WaitReturnsFirstTerminalOrLast ==
    /\ \A n \in 1..Len(poll.polls) :
          IsTerminal(poll.polls[n]) =>
              /\ n = Len(poll.polls)
              /\ poll.pc = "done"
              /\ poll.result = poll.polls[n]
    /\ poll.pc = "done" =>
          IF IsTerminal(poll.result)
          THEN poll.polls # <<>> /\ poll.polls[Len(poll.polls)] = poll.result
          ELSE /\ poll.now >= poll.deadline
               /\ poll.result = LastObserved(poll.polls)

\* two statuses were seen, the last poll failed and the deadline passed
WaitTimedOutWitness ==
    /\ poll.pc = "done"
    /\ poll.polls = <<"pending", "running", "error">>
    /\ poll.result = "running"

\* the VMs a user owns as template: TemplateVM is true and TerraLabsUser is
\* the user, compared after trimming and case-folding
OwnedTemplates(inv, user_id) ==
    {i \in 1..Len(inv) :
        /\ TAG_TEMPLATE_VM \in DOMAIN inv[i].tags
        /\ EqualIgnoringCase(inv[i].tags[TAG_TEMPLATE_VM], StrTrue)
        /\ TAG_TERRALABS_USER \in DOMAIN inv[i].tags
        /\ EqualIgnoringCase(Strip(inv[i].tags[TAG_TERRALABS_USER]), Strip(user_id))}

\* C27: a create_template_vm call for a user who owns a template VM makes no
\* NIC and no VM and, unless it raises, returns the VM the user owns; after
\* every call each user owns at most one template VM.
OneTemplateVmPerUser ==
    [][ /\ OwnedTemplates(vms, last'.who) # {} =>
              /\ Len(vms') = Len(vms)
              /\ cloud' = cloud
              /\ ~last'.raised => last'.result \in OwnedTemplates(vms, last'.who)
        /\ \A u \in TemplateUsers : Cardinality(OwnedTemplates(vms', u)) <= 1 ]_vars

\* user a, whose template VM is tagged with other case and blanks, asked
\* again and got that VM
ExistingTemplateReturnedWitness ==
    /\ last.op = "create_template"
    /\ last.who = <<"a">>
    /\ last.result # 0
    /\ Len(vms) = NumVMs
    /\ cloud = NoCloud
    /\ vms[last.result].tags[TAG_TERRALABS_USER] = <<" ", "A">>

\* C28: the VM an enroll call returns is a member of the lab whose occupant
\* tag was absent or empty, and every member listed before it was occupied.
EnrollTakesFirstFreeMember ==
    [][(last'.op = "enroll" /\ last'.result # 0) =>
           LET M == Members(vms, last'.lab_id, last'.course) IN
           /\ last'.result \in M
           /\ Occupant(vms[last'.result]) \in {None, EmptyStr}
           /\ \A i \in M : i < last'.result => Occupant(vms[i]) \notin {None, EmptyStr}
      ]_vars

\* an enroll call returned a VM while a member listed after it is still free
EnrollLeftLaterFreeWitness ==
    /\ last.op = "enroll"
    /\ last.result # 0
    /\ \E i \in Members(vms, last.lab_id, last.course) :
           /\ i > last.result
           /\ Occupant(vms[i]) \in {None, EmptyStr}

\* the display name the HTTP layer passes along with a requester
NameOf(who) == (CHOOSE u \in Users : u.who = who).who_name

\* the occupancy tags a call for who writes
OccupancyKeys(who) ==
    IF NameOf(who) \in {None, EmptyStr} THEN {TAG_OCCUPIED_BY}
    ELSE {TAG_OCCUPIED_BY, TAG_OCCUPIED_NAME}

\* C29: an enroll call that returns None changes no VM; one that returns a VM
\* changes that VM alone, whose tags afterwards are the ones it had plus
\* occupiedbystudent = who and, when a name is given, occupiedbystudentname =
\* the name, every other tag (Published included) keeping its value.
EnrollChangesOccupancyTagsOnly ==
    [][last'.op = "enroll" =>
           /\ Len(vms') = Len(vms)
           /\ last'.result = 0 => vms' = vms
           /\ \A i \in 1..Len(vms) : i # last'.result => vms'[i] = vms[i]
           /\ last'.result # 0 =>
                 LET old == vms[last'.result]
                     new == vms'[last'.result]
                     keys == OccupancyKeys(last'.who)
                 IN  /\ new.rg = old.rg
                     /\ DOMAIN new.tags = DOMAIN old.tags \cup keys
                     /\ new.tags[TAG_OCCUPIED_BY] = last'.who
                     /\ TAG_OCCUPIED_NAME \in keys =>
                            new.tags[TAG_OCCUPIED_NAME] = NameOf(last'.who)
                     /\ \A k \in DOMAIN old.tags \ keys : new.tags[k] = old.tags[k]
      ]_vars

\* a named requester was given a VM that carries Published, next to a VM
\* that is not the same as it was given
EnrollKeptPublishedWitness ==
    /\ last.op = "enroll"
    /\ last.result # 0
    /\ NameOf(last.who) = <<"A">>
    /\ DOMAIN vms[last.result].tags =
           {"LabId", "LabCourse", TAG_PUBLISHED, TAG_OCCUPIED_BY, TAG_OCCUPIED_NAME}
    /\ \E i \in 1..Len(vms) : i # last.result /\ vms[i].tags # NoTags

\* the VMs whose occupant tag is the requester, compared after trimming and
\* case-folding
ClaimedBy(inv, who) ==
    {i \in 1..Len(inv) :
        /\ TAG_OCCUPIED_BY \in DOMAIN inv[i].tags
        /\ EqualIgnoringCase(Strip(inv[i].tags[TAG_OCCUPIED_BY]), Strip(who))}

\* a requester that is None, empty or blank
EmptyRequester(who) == who = None \/ Strip(who) = EmptyStr

\* C30: find_vm_for_student writes nothing; for an empty requester, or when
\* no VM's occupant tag is the requester after trimming and case-folding, it
\* returns None (0); otherwise it returns the first such VM in listing order,
\* published or not.
FindReturnsFirstClaimedVm ==
    [][last'.op = "find" =>
           /\ vms' = vms
           /\ LET hits == IF EmptyRequester(last'.who) THEN {}
                          ELSE ClaimedBy(vms, last'.who)
              IN  /\ hits = {} => last'.result = 0
                  /\ hits # {} =>
                         /\ last'.result \in hits
                         /\ \A i \in hits : last'.result <= i
      ]_vars

\* find returned a VM of a lab that was unpublished, whose tag is written
\* with a blank and a capital
FindAfterUnpublishWitness ==
    /\ last.op = "find"
    /\ last.who = <<"a">>
    /\ last.result # 0
    /\ vms[last.result].tags[TAG_OCCUPIED_BY] = <<" ", "A">>
    /\ TAG_PUBLISHED \notin DOMAIN vms[last.result].tags
    /\ ~SomeMemberPublished(vms, LabX, CourseC)

\* C31: the delete calls of a run come in the order VMs, NICs, public IPs,
\* disks, each one answered before the next is issued (a resource whose
\* delete succeeded is gone, and only the last call of a run may have
\* failed); the change request is asked for only after the teardown has
\* returned, and the state blob is touched only after the change request
\* stage has returned.
StagesRunInSequence ==
    /\ \A i, j \in 1..Len(job.calls) :
           i < j => /\ cloud[job.calls[i].name].kind <= cloud[job.calls[j].name].kind
                    /\ job.calls[i].answer = "ok"
    /\ \A i \in 1..Len(job.calls) :
           job.calls[i].answer = "ok" => ~cloud[job.calls[i].name].present
    /\ job.pc = "delete" => job.azure = "none" /\ job.delete_mr = "none"
    /\ job.delete_mr # "none" => job.azure = "returned"
    /\ job.pc = "state" => job.delete_mr = "returned"
    /\ job.state_tried => job.azure = "returned" /\ job.delete_mr = "returned"

\* a run deleted a VM and then a NIC, opened the change request and went on
\* to the state blob
ThreeStagesDoneWitness ==
    /\ job.report = "returned"
    /\ job.state_tried
    /\ Len(job.calls) = 2
    /\ cloud[job.calls[1].name].kind = 1
    /\ cloud[job.calls[2].name].kind = 2

\* C32: in a run with azure_dry_run no delete call is issued, no change
\* request comes back from the version-control stage, and the state blob is
\* neither tried nor reported deleted.
DryRunTouchesNoSystem ==
    job.dry_run =>
        /\ job.calls = <<>>
        /\ job.delete_mr # "returned"
        /\ ~job.state_tried
        /\ ~job.tfstate_deleted

\* C33: the state blob is tried, and tfstate_deleted is true, only in a run
\* with delete_state that is not a dry run.
StateCleanupOnlyWhenAsked ==
    (job.state_tried \/ job.tfstate_deleted) => (job.delete_state /\ ~job.dry_run)

\* a run that deleted a resource and was told to keep the state returned its
\* report without trying the blob
StateKeptWitness ==
    /\ job.report = "returned"
    /\ ~job.delete_state
    /\ ~job.dry_run
    /\ job.calls # <<>>
    /\ ~job.state_tried
    /\ ~job.tfstate_deleted

\* C34: every path in deleted_paths of a returned result is in a commit that
\* went through, and no path of failed_paths is among them.
DeletedPathsWereCommitted ==
    mr.outcome = "returned" =>
        \A d \in 1..Len(mr.deleted_paths) :
            /\ \E q \in 1..Len(mr.attempts) :
                   /\ mr.attempts[q].ok
                   /\ \E k \in 1..Len(mr.attempts[q].paths) :
                          mr.attempts[q].paths[k] = mr.deleted_paths[d]
            /\ \A f \in 1..Len(mr.failed_paths) :
                   mr.failed_paths[f] # mr.deleted_paths[d]

\* C35: a call whose POST was answered 409 and whose lookup found an open
\* merge request of the branch returns that one; a call answered 409 with
\* none found, or answered another status that is not 2xx, raises; and at
\* the end of every run the lab has at most one open deletion merge request.
MrCreationIdempotentByLookup ==
    mr.pc = "done" =>
        /\ (mr.status = 409 /\ mr.found # 0) =>
               mr.outcome = "returned" /\ mr.used = mr.found
        /\ (mr.status = 409 /\ mr.found = 0) => mr.outcome = "raised"
        /\ (mr.status >= 300 /\ mr.status # 409) => mr.outcome = "raised"
        /\ Len(mr.opened) <= 1

\* a fetch that yielded an address
Yielded(f) == ~f.failed /\ (f.private_ip # None \/ f.public_ip # None)

\* C36: _resolve_vm_ips fetches the interface at most 5 times and no more
\* after a fetch that yielded an address; it does not raise; it returns the
\* addresses of the fetch that yielded one, and null for both after 5 fetches
\* that yielded none or failed, or without fetching when the VM has no
\* interface reference that can be resolved.
ResolveTriesFiveTimesAtMost ==
    /\ Len(ips.fetches) <= 5
    /\ \A q \in 1..(Len(ips.fetches) - 1) : ~Yielded(ips.fetches[q])
    /\ ~ips.raised
    /\ ips.ref # "nic" => ips.fetches = <<>>
    /\ ips.pc = "done" =>
          IF ips.fetches # <<>> /\ Yielded(ips.fetches[Len(ips.fetches)])
          THEN /\ ips.result.private_ip = ips.fetches[Len(ips.fetches)].private_ip
               /\ ips.result.public_ip = ips.fetches[Len(ips.fetches)].public_ip
          ELSE /\ ips.result = [private_ip |-> None, public_ip |-> None]
               /\ ips.ref = "nic" => Len(ips.fetches) = 5

\* the third fetch, after one that failed and one without addresses, gave
\* the public address alone, and the call returned it
PublicAddressOnThirdFetchWitness ==
    /\ ips.pc = "done"
    /\ Len(ips.fetches) = 3
    /\ ips.fetches[1].failed
    /\ ~ips.fetches[2].failed
    /\ ips.result = [private_ip |-> None, public_ip |-> <<"2">>]

\* C37: once the unpublish call is done, no member of the lab carries a true
\* Published tag, whatever an enroll call that read its tags earlier writes.
UnpublishStaysDone ==
    (procs[Publisher].pc = "done" /\ ~procs[Publisher].published)
        => ~SomeMemberPublished(vms, LabX, CourseC)

\* C38: the VM an enroll call has returned keeps a non-empty occupant tag,
\* whatever a publish or unpublish call that read its tags earlier writes.
ClaimSurvivesPublish ==
    \A p \in 1..NumProcs :
        (procs[p].pc = "done" /\ procs[p].result # 0)
            => Occupant(vms[procs[p].result]) \notin {None, EmptyStr}

\* C39: snapshot_and_delete_template_vm issues a delete only after its
\* snapshot call has succeeded: a call that found no template VM, failed the
\* ownership check or failed to make the snapshot has deleted nothing and
\* left the VMs in place; the NIC and the disk go after the VM; and once the
\* VM is deleted the call returns ok whether or not the NIC and the disk
\* could be deleted.
DeletesOnlyAfterSnapshot ==
    /\ \A q \in 1..Len(snap.calls) :
           snap.calls[q].op # "snapshot" =>
               /\ q > 1
               /\ snap.calls[1].op = "snapshot"
               /\ snap.calls[1].ok
    /\ ~snap.snapshot => snap.deleted = {}
    /\ snap.result = "no_vm" => snap.calls = <<>>
    /\ "vm" \notin snap.deleted =>
           /\ snap.deleted = {}
           /\ snap.pc # "idle" => Len(vms) = snap.size
    /\ (snap.pc = "done" /\ "vm" \in snap.deleted) => snap.result = "ok"
    /\ snap.result = "ok" => snap.snapshot /\ "vm" \in snap.deleted

\* the snapshot was made and the VM deleted, neither the NIC nor the disk
\* could be deleted, and the call returned ok
LeftoversStillOkWitness ==
    /\ snap.pc = "done"
    /\ snap.result = "ok"
    /\ snap.deleted = {"vm"}
    /\ Len(snap.calls) = 4

====
